---- MODULE Spec2Model ----
(***************************************************************************)
(* Model of the incident-detection pipeline of the traffic-camera backend: *)
(*   backend/real_time_detector.py  RealTimeDetector (stride gate,         *)
(*                                  heuristic pre-filter, analyzer call,   *)
(*                                  per-source cooldown)                   *)
(*   backend/app.py                 process_frame and its collaborators    *)
(*   backend/models/gemini_analyzer.py  GeminiAnalyzer._parse_response     *)
(*   backend/crash_detector.py      CrashDetector (heuristic crash score)  *)
(*                                                                         *)
(* Confidences and scores are integers in hundredths (0.6 is 60).  Time is *)
(* the value of time.time() in whole seconds.  The crash probabilities of  *)
(* CrashDetector are integers in units of 1/3000, so that the average of   *)
(* three scores given in hundredths and the 0.3 weight are exact.          *)
(***************************************************************************)
EXTENDS Integers, Sequences, FiniteSets, TLC

\* ------------------------------------------------------------------ bounds
\* Last second the clock reaches.
MaxTime == 13
\* Number of frames delivered in one run with a single source.
MaxCalls == 5
\* Number of frames delivered in one run with two sources.
MaxCallsTwo == 4
\* Longest time (seconds) one analyzer call takes before it returns.
MaxLatency == 1
\* Number of frames delivered in one run with concurrent invocations.
MaxCallsConc == 3
\* Number of frames posted to process_frame in one run.
MaxPosts == 6
\* Number of frames delivered in one run that overfills the frame buffer.
BufferCalls == 7
\* Number of frames posted to simple_app.py's process_frame in one run.
SimplePosts == 12
\* Number of frames of the synthetic sequence fed to the gate.
GateFrames == 100

\* ------------------------------------------------------- program constants
Stride == 30
Cooldown == 10
BufferSize == 5
CvThreshold == 60
FinalThreshold == 40
MotionThreshold == 30
CvMotionConfidence == 70
CvCrowdConfidence == 50
AnalyzeEvery == 5
SimulateEvery == 10

\* ------------------------------------------------------------------ inputs
\* video_id values the caller feeds.
VideoIds == {"camA", "camB"}

\* A frame is abstracted to what _analyze_with_computer_vision reads of it:
\* its grey level (a flat image, so the mean absolute difference of two frames
\* is the difference of their levels) and the number of contours whose area
\* lies strictly between 1000 and 50000.
Frames == {[lum |-> 0, objs |-> 5], [lum |-> 40, objs |-> 3]}

\* frame is None
NoFrame == [lum |-> -1, objs |-> -1]

\* frame_number values: one off the stride and one on it.
FrameNumbers == {29, 30}

\* JSON values of an analyzer reply, tagged with their Python type.
JNum(n) == [t |-> "num", v |-> n]
JBool(b) == [t |-> "bool", v |-> b]
JStr(s) == [t |-> "str", v |-> s]

\* What generate_content and response.text give one call: the call raises,
\* or the text is not JSON, or it is JSON that is not an object, or it is a
\* JSON object (a function from its keys to tagged values).
Replies ==
  { [kind |-> "raises", obj |-> <<>>],
    [kind |-> "garbage", obj |-> <<>>],
    [kind |-> "list", obj |-> <<>>],
    [kind |-> "object", obj |-> [has_crash |-> JBool(TRUE), confidence |-> JNum(90),
                                 crash_type |-> JStr("fire"),
                                 severity |-> JStr("low")]],
    [kind |-> "object", obj |-> [has_crash |-> JBool(TRUE), confidence |-> JNum(41)]],
    [kind |-> "object", obj |-> [has_crash |-> JBool(TRUE), confidence |-> JNum(40)]],
    [kind |-> "object", obj |-> [has_crash |-> JBool(FALSE), confidence |-> JNum(90)]],
    [kind |-> "object", obj |-> [has_crash |-> JBool(TRUE)]],
    [kind |-> "object", obj |-> [confidence |-> JNum(90)]],
    [kind |-> "object", obj |-> [has_crash |-> JBool(TRUE), confidence |-> JStr("high")]] }

\* ------------------------------------------------------------------- state
VARIABLES
  gemini_model,         \* RealTimeDetector.gemini_model is not None
  frame_buffers,        \* RealTimeDetector.frame_buffers: video_id -> list of frames
  last_detection_time,  \* RealTimeDetector.last_detection_time: video_id -> time
  now,                  \* time.time()
  feeds,                \* the video_id values the caller passes in this run
  calls,                \* frames the caller has still to deliver
  ret,                  \* what the last invocation did and returned
  events,               \* video_id -> the incidents emitted for it, in order
  script,               \* video_id -> progress of its confirmed incidents
                        \* through ScenarioTimes
  pc,                   \* thread -> where its invocation of analyze_video_frame is
  loc,                  \* thread -> the arguments and locals of its invocation
  total_detections,     \* app.py detection_stats['total_detections']
  active_incidents,     \* app.py detection_stats['active_incidents']
  resp,                 \* what the last process_frame request did and answered
  streak_alerts,        \* send_alert calls in the current run of consecutive
                        \* frames that show an incident
  spike,                \* gate test: index of the one frame that scores high
  spike_score,          \* gate test: the score of that frame
  gate_idx,             \* gate test: index of the next frame to feed
  escalations,          \* gate test: indices of the frames that escalated
  response_text,        \* the text handed to GeminiAnalyzer._parse_response
  parsed,               \* what _parse_response returned for it
  features,             \* the feature vector the crash score is computed from
  crash_probability,    \* CrashDetector._calculate_crash_probability of it
  cd_frame,             \* the frame of the last detect_crash_in_frame call
  cd_previous_frame,    \* its previous_frame argument
  cd_result,            \* the result it returned
  located,              \* what the object locator detects in the scene the
                        \* camera shows
  yolo_model,           \* YOLODetector.model / app.py yolo_model is not None
  yolo_ret,             \* what the last call of the object locator did and
                        \* returned
  judgment              \* what the last direct call of a semantic analyzer
                        \* returned

\* RealTimeDetector's fields and the record of its calls.
detector == <<gemini_model, frame_buffers, last_detection_time, now, feeds,
              ret, events, script>>

\* The threads inside analyze_video_frame.
threads == <<pc, loc>>

\* The state of app.py.
webapp == <<total_detections, active_incidents, resp, streak_alerts>>

\* The stride-and-threshold gate fed with synthetic scores.
gate == <<spike, spike_score, gate_idx, escalations>>

\* GeminiAnalyzer._parse_response at work.
parser == <<response_text, parsed>>

\* CrashDetector: the score of a feature vector and detect_crash_in_frame.
scorer == <<features, crash_probability>>

crash == <<cd_frame, cd_previous_frame, cd_result>>

\* The object locator.
locator == <<located, yolo_model, yolo_ret>>

vars == <<gemini_model, frame_buffers, last_detection_time, now, feeds, calls,
          ret, events, script, pc, loc,
          total_detections, active_incidents, resp, streak_alerts,
          spike, spike_score, gate_idx, escalations, response_text, parsed,
          features, crash_probability, cd_frame, cd_previous_frame, cd_result,
          located, yolo_model, yolo_ret, judgment>>

\* ------------------------------------------------- Python value semantics
\* bool(x) of a tagged JSON value.
Truthy(x) ==
  CASE x.t = "bool" -> x.v
    [] x.t = "num" -> x.v # 0
    [] x.t = "str" -> x.v # ""

\* x > bound raises TypeError for a str operand; bool compares as 0 or 1.
ComparableToNumber(x) == x.t \in {"num", "bool"}

AsNumber(x) == IF x.t = "bool" THEN (IF x.v THEN 100 ELSE 0) ELSE x.v

\* dict update d[k] = v
DictPut(d, k, v) == [x \in DOMAIN d \cup {k} |-> IF x = k THEN v ELSE d[x]]

\* ------------------------------------------------- RealTimeDetector helpers
\* (mutant) one buffer shared by all sources: the frame goes to every list.
BufferAppendEverywhere(buffers, video_id, frame) ==
  [v \in DOMAIN buffers \cup {video_id} |->
     LET old == IF v \in DOMAIN buffers THEN buffers[v] ELSE <<>>
         app == Append(old, frame)
     IN IF Len(app) > BufferSize THEN Tail(app) ELSE app]

\* (mutant) a full buffer drops the frame that arrives, not the oldest one.
BufferAppendDropNewest(buffers, video_id, frame) ==
  LET old == IF video_id \in DOMAIN buffers THEN buffers[video_id] ELSE <<>>
      app == Append(old, frame)
  IN DictPut(buffers, video_id,
             IF Len(app) > BufferSize THEN old ELSE app)

\* Lines 43-48: append the frame, keep the last 5.
BufferAppend(buffers, video_id, frame) ==
  LET old == IF video_id \in DOMAIN buffers THEN buffers[video_id] ELSE <<>>
      app == Append(old, frame)
  IN DictPut(buffers, video_id,
             IF Len(app) > BufferSize THEN Tail(app) ELSE app)

\* (mutant) the stride test inverted.
StrideEligibleInverted(frame_number) == frame_number % Stride # 0

\* Line 51: only every 30th frame is analysed.
StrideEligible(frame_number) == frame_number % Stride = 0

\* (mutant) the cooldown test off by one: suppress up to and including 10 s.
InCooldownInclusive(ldt, video_id, t) ==
  video_id \in DOMAIN ldt /\ t - ldt[video_id] <= Cooldown

\* (mutant) one timestamp shared by all sources.
InCooldownShared(ldt, video_id, t) ==
  \E w \in DOMAIN ldt : t - ldt[w] < Cooldown

\* (mutant) the window one second short.
InCooldownShort(ldt, video_id, t) ==
  video_id \in DOMAIN ldt /\ t - ldt[video_id] < Cooldown - 1

\* Lines 55-57: the source emitted less than 10 seconds ago.
InCooldown(ldt, video_id, t) ==
  video_id \in DOMAIN ldt /\ t - ldt[video_id] < Cooldown

\* (mutant) the heuristic run before the cooldown test.
ScreenedBeforeCooldown(frame_number, ldt, video_id, t) ==
  StrideEligible(frame_number)

\* Lines 51-60: the heuristic runs for a frame that passed the stride test
\* and then the cooldown test.
Screened(frame_number, ldt, video_id, t) ==
  StrideEligible(frame_number) /\ ~InCooldown(ldt, video_id, t)

\* (mutant) a frame with no frame before it counts as motion.
AnalyzeWithComputerVisionLone(frame, video_id, buffers) ==
  LET buf == buffers[video_id]
      motion_detected ==
        IF video_id \in DOMAIN buffers /\ Len(buf) > 1
        THEN LET prev == buf[Len(buf) - 1]
                 d == frame.lum - prev.lum
                 motion_score == IF d < 0 THEN -d ELSE d
             IN motion_score > MotionThreshold
        ELSE TRUE
      significant_objects == frame.objs
      confidence ==
        IF motion_detected /\ significant_objects > 2 THEN CvMotionConfidence
        ELSE IF significant_objects > 4 THEN CvCrowdConfidence
        ELSE 0
  IN [has_crash |-> confidence > CvThreshold,
      confidence |-> confidence,
      motion_detected |-> motion_detected,
      objects_count |-> significant_objects]

\* _analyze_with_computer_vision, on buffers that already hold the frame.
AnalyzeWithComputerVision(frame, video_id, buffers) ==
  LET buf == buffers[video_id]
      motion_detected ==
        IF video_id \in DOMAIN buffers /\ Len(buf) > 1
        THEN LET prev == buf[Len(buf) - 1]
                 d == frame.lum - prev.lum
                 motion_score == IF d < 0 THEN -d ELSE d
             IN motion_score > MotionThreshold
        ELSE FALSE
      significant_objects == frame.objs
      confidence ==
        IF motion_detected /\ significant_objects > 2 THEN CvMotionConfidence
        ELSE IF significant_objects > 4 THEN CvCrowdConfidence
        ELSE 0
  IN [has_crash |-> confidence > CvThreshold,
      confidence |-> confidence,
      motion_detected |-> motion_detected,
      objects_count |-> significant_objects]

\* (mutant) the first-stage bar lowered to the crowd confidence.
FirstStagePassLoose(confidence) == confidence >= CvCrowdConfidence

\* Line 63: the first-stage threshold.
FirstStagePass(confidence) == confidence > CvThreshold

\* _analyze_with_gemini: the dict it returns for a reply of the service.
\* A raising call and text that json.loads rejects both end in the except
\* branch; any JSON value is returned as parsed.
AnalyzeWithGemini(reply) ==
  IF reply.kind \in {"raises", "garbage"}
  THEN [kind |-> "object",
        obj |-> [has_crash |-> JBool(FALSE), confidence |-> JNum(0)]]
  ELSE reply

\* (mutant) the final threshold met, not exceeded.
ConfirmCheckInclusive(g) ==
  IF g.kind # "object" THEN "raises"
  ELSE IF "has_crash" \notin DOMAIN g.obj THEN "raises"
  ELSE IF ~Truthy(g.obj.has_crash) THEN "no"
  ELSE IF "confidence" \notin DOMAIN g.obj THEN "raises"
  ELSE IF ~ComparableToNumber(g.obj.confidence) THEN "raises"
  ELSE IF AsNumber(g.obj.confidence) >= FinalThreshold THEN "yes"
  ELSE "no"

\* Line 66: gemini_result['has_crash'] and gemini_result['confidence'] > 0.4.
\* "raises" when the subscript or the comparison raises.
ConfirmCheck(g) ==
  IF g.kind # "object" THEN "raises"
  ELSE IF "has_crash" \notin DOMAIN g.obj THEN "raises"
  ELSE IF ~Truthy(g.obj.has_crash) THEN "no"
  ELSE IF "confidence" \notin DOMAIN g.obj THEN "raises"
  ELSE IF ~ComparableToNumber(g.obj.confidence) THEN "raises"
  ELSE IF AsNumber(g.obj.confidence) > FinalThreshold THEN "yes"
  ELSE "no"

\* The analyzer's dict makes line 66 true.
Confirms(reply) == ConfirmCheck(AnalyzeWithGemini(reply)) = "yes"

\* No analyzer dict: the analyzer was not asked.
NoReply == [kind |-> "none", obj |-> <<>>]

\* _get_no_detection_result, with the bookkeeping of the call: whether the
\* analyzer was invoked, whether the call returned or raised, and whether the
\* frame was a confirmed incident (eligible, heuristic above the first-stage
\* threshold, analyzer available and confirming); `screened` says whether
\* _analyze_with_computer_vision ran for the frame.
NoDetection(video_id, frame_number, analyzed, outcome, confirmed) ==
  [video |-> video_id, frame_number |-> frame_number,
   outcome |-> outcome, has_crash |-> FALSE, confidence |-> JNum(0),
   crash_type |-> JStr("none"), severity |-> JStr("none"),
   analyzed |-> analyzed, confirmed |-> confirmed, reply |-> NoReply,
   screened |-> FALSE]

\* The same for a frame the analyzer was asked about: `outcome` says whether
\* line 66 raised, g is the dict _analyze_with_gemini returned.
Unconfirmed(video_id, frame_number, outcome, g) ==
  [NoDetection(video_id, frame_number, TRUE, outcome, FALSE)
     EXCEPT !.reply = g, !.screened = TRUE]

\* dict.get(key, default) on the analyzer's dict
GetOr(obj, key, default) == IF key \in DOMAIN obj THEN obj[key] ELSE default

\* Lines 68-76: the incident built from the analyzer's dict.
Detection(video_id, frame_number, g) ==
  [video |-> video_id, frame_number |-> frame_number,
   outcome |-> "returned", has_crash |-> TRUE,
   confidence |-> g.obj.confidence,
   crash_type |-> GetOr(g.obj, "crash_type", JStr("collision")),
   severity |-> GetOr(g.obj, "severity", JStr("high")),
   analyzed |-> TRUE, confirmed |-> TRUE, reply |-> g, screened |-> TRUE]

\* The arrival times of the cooldown scenario: confirmed incidents at
\* t = 0, 3, 7 and 12 seconds.
ScenarioTimes == <<0, 3, 7, 12>>

\* script[v] counts the confirmed incidents of source v while they arrive
\* exactly at ScenarioTimes; -1 once one arrived at another time.
ScriptStep(k, confirmed, t) ==
  IF ~confirmed THEN k
  ELSE IF k >= 0 /\ k < Len(ScenarioTimes) /\ t = ScenarioTimes[k + 1] THEN k + 1
  ELSE -1

\* Threads that may run analyze_video_frame at the same time.
Threads == {1, 2}

\* A thread outside the method has no arguments.
NoArgs == [video |-> "", frame |-> NoFrame, frame_number |-> 0]

\* The text and the result of a parser that has parsed nothing.
NoText == [fence |-> "none", closed |-> TRUE, body |-> [kind |-> "garbage", obj |-> <<>>]]

Unparsed ==
  [state |-> "pending", has_incident |-> JBool(FALSE), confidence |-> 0,
   vehicles_detected |-> 0, pedestrians_detected |-> 0,
   emergency_vehicles_detected |-> 0]

\* ------------------------------------------------------------ app.py helpers
\* What gemini_model.generate_content gives app.py's analyze_with_gemini.
AppReplies ==
  { [kind |-> "raises", obj |-> <<>>],
    [kind |-> "garbage", obj |-> <<>>],
    [kind |-> "list", obj |-> <<>>],
    [kind |-> "object", obj |-> << >>],
    [kind |-> "object", obj |-> [has_incident |-> JBool(FALSE),
                                 incident_type |-> JStr("none"),
                                 severity |-> JStr("low"),
                                 description |-> JStr("clear road"),
                                 confidence |-> JNum(90)]],
    [kind |-> "object", obj |-> [has_incident |-> JBool(TRUE),
                                 incident_type |-> JStr("collision"),
                                 severity |-> JStr("high"),
                                 description |-> JStr("two cars"),
                                 confidence |-> JNum(90)]],
    [kind |-> "object", obj |-> [has_incident |-> JBool(TRUE)]] }

\* app.py analyze_with_gemini: the parsed JSON, or the fixed dict of the
\* except branch when the call raises or the text is not JSON.
AppAnalyzeWithGemini(reply) ==
  IF reply.kind \in {"raises", "garbage"}
  THEN [kind |-> "object",
        obj |-> [has_incident |-> JBool(FALSE), incident_type |-> JStr("none"),
                 severity |-> JStr("low"), description |-> JStr("Analysis failed"),
                 confidence |-> JNum(0)]]
  ELSE reply

\* Line 300: gemini_result.get('has_incident', False); "raises" (an
\* AttributeError) when the parsed JSON is not an object.
HasIncident(g) ==
  IF g.kind # "object" THEN "raises"
  ELSE IF "has_incident" \notin DOMAIN g.obj THEN "no"
  ELSE IF Truthy(g.obj.has_incident) THEN "yes"
  ELSE "no"

\* The fields of the judgment that send_alert and save_incident_to_db read.
IncidentFields == {"incident_type", "severity", "description", "confidence"}

\* str.title() on the incident types
Title(str) ==
  CASE str = "collision" -> "Collision"
    [] str = "fire" -> "Fire"
    [] str = "none" -> "None"
    [] OTHER -> str

\* (mutant) the message carries the type as the subject line spells it.
AlertMessageTitled(incident_data) ==
  [built |-> TRUE,
   type |-> JStr(Title(incident_data.incident_type.v)),
   severity |-> incident_data.severity,
   confidence |-> incident_data.confidence]

\* Lines 167-176: the message of the alert.
AlertMessage(incident_data) ==
  [built |-> TRUE,
   type |-> incident_data.incident_type,
   severity |-> incident_data.severity,
   confidence |-> incident_data.confidence]

NoMessage ==
  [built |-> FALSE, type |-> JStr(""), severity |-> JStr(""),
   confidence |-> JNum(0)]

\* (mutant) send_alert without its except branch: a failure is raised.
SendAlertUncaught(incident_data, topic_configured, publish_ok) ==
  IF ~topic_configured
  THEN [raised |-> FALSE, sent |-> FALSE, message |-> NoMessage]
  ELSE IF ~(IncidentFields \subseteq DOMAIN incident_data)
  THEN [raised |-> TRUE, sent |-> FALSE, message |-> NoMessage]
  ELSE IF incident_data.incident_type.t # "str" \/ ~publish_ok
  THEN [raised |-> TRUE, sent |-> FALSE, message |-> NoMessage]
  ELSE [raised |-> FALSE, sent |-> TRUE,
        message |-> AlertMessage(incident_data)]

\* send_alert: False when the topic is not configured, when the message
\* cannot be built from the incident's fields, or when the subject cannot be
\* built or the publish call fails (all caught at line 187); True with the
\* message published otherwise.  It never raises.
SendAlert(incident_data, topic_configured, publish_ok) ==
  IF ~topic_configured
  THEN [raised |-> FALSE, sent |-> FALSE, message |-> NoMessage]
  ELSE IF ~(IncidentFields \subseteq DOMAIN incident_data)
  THEN [raised |-> FALSE, sent |-> FALSE, message |-> NoMessage]
  ELSE IF incident_data.incident_type.t # "str" \/ ~publish_ok
  THEN [raised |-> FALSE, sent |-> FALSE, message |-> NoMessage]
  ELSE [raised |-> FALSE, sent |-> TRUE,
        message |-> AlertMessage(incident_data)]

\* Lines 212-222: the item of the incident table.
DbItem(incident_data) ==
  [built |-> TRUE,
   incident_type |-> incident_data.incident_type,
   severity |-> incident_data.severity,
   confidence |-> incident_data.confidence,
   status |-> "alerted"]

NoItem ==
  [built |-> FALSE, incident_type |-> JStr(""), severity |-> JStr(""),
   confidence |-> JNum(0), status |-> ""]

\* save_incident_to_db: the incident id (stored TRUE) with the item put in
\* the table when the item can be built and the storage calls succeed; None
\* (stored FALSE) otherwise (caught at line 228).  It never raises.
SaveIncidentToDb(incident_data, storage_ok) ==
  IF storage_ok /\ IncidentFields \subseteq DOMAIN incident_data
  THEN [raised |-> FALSE, stored |-> TRUE, item |-> DbItem(incident_data)]
  ELSE [raised |-> FALSE, stored |-> FALSE, item |-> NoItem]

\* Line 296: the analyzer is asked when total_detections is a multiple of 5.
AnalysisDue(n) == n % AnalyzeEvery = 0

\* incident_id is None
NoId == -1

\* The answers of process_frame.
Answer(status, kind, analyzed, alert_sent, saved) ==
  [status |-> status, kind |-> kind, analyzed |-> analyzed,
   alert_sent |-> alert_sent, saved |-> saved,
   incident |-> <<>>, message |-> NoMessage, item |-> NoItem,
   alert_calls |-> 0, save_calls |-> 0, incident_id |-> NoId]

\* Lines 314-319: the answer that carries the incident, with what the two
\* collaborators did for it.
IncidentAnswer(incident_data, alert, save) ==
  [Answer(200, "incident", TRUE, alert.sent, save.stored)
     EXCEPT !.incident = incident_data, !.message = alert.message,
            !.item = save.item, !.alert_calls = 1, !.save_calls = 1,
            !.incident_id = IF save.stored THEN now ELSE NoId]

\* simple_app.py, lines 143-158: the simulated incident and its answer, the
\* incident id made of the time of the call.
SimulatedIncident ==
  [has_incident |-> JBool(TRUE), incident_type |-> JStr("collision"),
   severity |-> JStr("high"),
   description |-> JStr("Two vehicles collided with visible damage"),
   confidence |-> JNum(95)]

SimulatedAnswer(t) ==
  [Answer(200, "incident", FALSE, TRUE, FALSE)
     EXCEPT !.incident = SimulatedIncident, !.incident_id = t]

\* ---------------------------------------------------------------- actions
\* app.py as loaded: the module-level detection_stats.
AppLoaded ==
  /\ total_detections = 0
  /\ active_incidents = 0
  /\ resp = Answer(0, "none", FALSE, FALSE, FALSE)
  /\ streak_alerts = 0

\* ------------------------------------------------- CrashDetector helpers
\* 1.0 in the unit of the crash probabilities.
One == 3000

\* CrashDetector.crash_threshold (0.7), the bar on crash_score (0.6), the
\* bar on the absolute difference of two pixels, and the bar on the motion
\* ratio, in hundredths, above which has_motion is set (0.01).
CrashThreshold == 2100
IndicatorThreshold == 1800
DiffThreshold == 30
HasMotionRatio == 1

Min(a, b) == IF a <= b THEN a ELSE b

Abs(a) == IF a >= 0 THEN a ELSE -a

\* The pixels of a frame.
Pixels == 1..2

\* (mutant) the pixels at or below the threshold are counted instead.
MotionRatioInverted(current_gray, previous_gray) ==
  (100 * Cardinality({i \in Pixels :
                        Abs(current_gray[i] - previous_gray[i]) <= DiffThreshold}))
    \div Cardinality(Pixels)

\* Lines 114-122: the share of the pixels whose absolute difference is above
\* the threshold, in hundredths.
MotionRatio(current_gray, previous_gray) ==
  (100 * Cardinality({i \in Pixels :
                        Abs(current_gray[i] - previous_gray[i]) > DiffThreshold}))
    \div Cardinality(Pixels)

\* Line 125: anomaly_score = min(motion_ratio * 10, 1.0), in hundredths.
AnomalyScore(motion_ratio) == Min(motion_ratio * 10, 100)

\* CrashDetector._analyze_motion
AnalyzeMotion(current_gray, previous_gray) ==
  LET motion_ratio == MotionRatio(current_gray, previous_gray)
  IN [has_motion |-> motion_ratio > HasMotionRatio,
      motion_ratio |-> motion_ratio,
      anomaly_score |-> AnomalyScore(motion_ratio)]

\* (mutant) the score counts when it is at or below the bar.
DetectCrashIndicatorsInverted(vehicles, collision_risk, orientation_anomaly, debris_detected) ==
  IF vehicles < 2
  THEN [crash_type |-> "none", confidence |-> 0]
  ELSE LET crash_score ==
             10 * (collision_risk + orientation_anomaly + debris_detected)
       IN IF crash_score <= IndicatorThreshold
          THEN [crash_type |-> "collision", confidence |-> crash_score]
          ELSE [crash_type |-> "none", confidence |-> 0]

\* CrashDetector._detect_crash_indicators, given the number of vehicles and
\* the results (in hundredths) of _check_vehicle_proximity,
\* _check_orientation_anomalies and _detect_debris_patterns.
DetectCrashIndicators(vehicles, collision_risk, orientation_anomaly, debris_detected) ==
  IF vehicles < 2
  THEN [crash_type |-> "none", confidence |-> 0]
  ELSE LET crash_score ==
             10 * (collision_risk + orientation_anomaly + debris_detected)
       IN IF crash_score > IndicatorThreshold
          THEN [crash_type |-> "collision", confidence |-> crash_score]
          ELSE [crash_type |-> "none", confidence |-> 0]

\* (mutant) the sum is not capped at 1.0.
CalculateCrashProbabilityUncapped(vehicles, indicators, anomaly_score) ==
  IF vehicles = 0 THEN 0
  ELSE indicators.confidence + anomaly_score * 9 + Min(vehicles * 300, 900)

\* CrashDetector._calculate_crash_probability; anomaly_score is in
\* hundredths, so its 0.3 weight is 9 units a hundredth, and 0.1 a vehicle
\* is 300 units.
CalculateCrashProbability(vehicles, indicators, anomaly_score) ==
  IF vehicles = 0 THEN 0
  ELSE LET base_prob == indicators.confidence
           anomaly_boost == anomaly_score * 9
           vehicle_boost == Min(vehicles * 300, 900)
       IN Min(base_prob + anomaly_boost + vehicle_boost, One)

\* The crash probability of a feature vector: _detect_crash_indicators
\* followed by _calculate_crash_probability.
Score(f) ==
  CalculateCrashProbability(
    f.vehicles,
    DetectCrashIndicators(f.vehicles, f.collision_risk, f.orientation_anomaly,
                          f.debris),
    AnomalyScore(f.motion_ratio))

\* The values the features are drawn from: the number of vehicles, the three
\* indicator scores and the motion ratio (all but the first in hundredths).
MaxVehicles == 4

RiskValues == {0, 50, 90, 100}

OrientationValues == {0, 40, 100}

DebrisValues == {0, 30, 60, 100}

MotionRatios == {0, 1, 5, 10, 50}

FeatureVectors ==
  [vehicles : 0..MaxVehicles, collision_risk : RiskValues,
   orientation_anomaly : OrientationValues, debris : DebrisValues,
   motion_ratio : MotionRatios]

\* A frame of detect_crash_in_frame: its grey levels, and what
\* _detect_vehicles, _check_vehicle_proximity, _check_orientation_anomalies
\* and _detect_debris_patterns find in it.
Scene(gray, vehicles, collision_risk, orientation_anomaly, debris) ==
  [gray |-> gray, vehicles |-> vehicles, collision_risk |-> collision_risk,
   orientation_anomaly |-> orientation_anomaly, debris |-> debris]

Uniform(gray) == \A i, j \in Pixels : gray[i] = gray[j]

Grays == [Pixels -> {0, 20, 200}]

\* A uniform frame has no edges, hence no contours and no vehicles; an
\* all-black one is all dark debris.  The other frames show one of a few
\* scenes.
UniformFrames ==
  {f \in {Scene(g, 0, 0, 0, d) :
             g \in {h \in Grays : Uniform(h)}, d \in {0, 100}} :
     (\A i \in Pixels : f.gray[i] = 0) => f.debris = 100}

CrashFrames ==
  UniformFrames \cup
  {Scene(g, x[1], x[2], x[3], x[4]) :
     g \in {h \in Grays : ~Uniform(h)},
     x \in {<<0, 0, 0, 30>>, <<1, 0, 20, 100>>, <<2, 90, 40, 100>>,
            <<2, 50, 40, 60>>, <<3, 50, 40, 60>>, <<3, 100, 100, 100>>}}

\* frame is None / previous_frame is None
NoCrashFrame == Scene([i \in Pixels |-> -1], -1, 0, 0, 0)

\* The result dict of detect_crash_in_frame; motion_ratio and
\* crash_probability record the values computed on the way (0 on the paths
\* that return before computing them).
CrashResult(has_crash, confidence, crash_type, objects_detected, motion, probability) ==
  [has_crash |-> has_crash, confidence |-> confidence,
   crash_type |-> crash_type, objects_detected |-> objects_detected,
   motion_detected |-> motion.has_motion,
   anomaly_score |-> motion.anomaly_score,
   motion_ratio |-> motion.motion_ratio,
   crash_probability |-> probability]

NoMotion == [has_motion |-> FALSE, motion_ratio |-> 0, anomaly_score |-> 0]

\* CrashDetector._get_no_detection_result
CrashNoDetection == CrashResult(FALSE, 0, "none", 0, NoMotion, 0)

\* (mutant) the threshold lowered to 0.5.
ExceedsCrashThresholdLow(probability) == probability * 2 > One

\* (mutant) the comparison with crash_threshold the other way round.
ExceedsCrashThresholdInverted(probability) == probability <= CrashThreshold

\* Line 73: crash_probability > self.crash_threshold
ExceedsCrashThreshold(probability) == probability > CrashThreshold

\* CrashDetector.detect_crash_in_frame
DetectCrashInFrame(frame, previous_frame) ==
  IF frame = NoCrashFrame THEN CrashNoDetection
  ELSE IF frame.vehicles = 0 THEN CrashNoDetection
  ELSE
    LET motion == IF previous_frame # NoCrashFrame
                  THEN AnalyzeMotion(frame.gray, previous_frame.gray)
                  ELSE NoMotion
        crash_indicators ==
          DetectCrashIndicators(frame.vehicles, frame.collision_risk,
                                frame.orientation_anomaly, frame.debris)
        probability ==
          CalculateCrashProbability(frame.vehicles, crash_indicators,
                                    motion.anomaly_score)
    IN IF ExceedsCrashThreshold(probability)
       THEN CrashResult(TRUE, probability, crash_indicators.crash_type,
                        frame.vehicles, motion, probability)
       ELSE CrashResult(FALSE, 0, "none", frame.vehicles, motion, probability)

\* No feature vector is being scored and no frame has been examined.
ScorerIdle ==
  /\ features = [vehicles |-> 0, collision_risk |-> 0,
                 orientation_anomaly |-> 0, debris |-> 0, motion_ratio |-> 0]
  /\ crash_probability = 0

CrashIdle ==
  /\ cd_frame = NoCrashFrame
  /\ cd_previous_frame = NoCrashFrame
  /\ cd_result = CrashNoDetection

\* ---------------------------------------------------- YOLODetector helpers
\* The bar on the distance of two vehicles, and of a person and a vehicle.
CollisionDistance == 50
PedestrianDistance == 100

\* YOLODetector._classify_detection
ClassifyDetection(class_name) ==
  IF class_name \in {"car", "truck", "bus", "motorcycle", "bicycle", "train"}
  THEN "vehicle"
  ELSE IF class_name \in {"person"} THEN "person"
  ELSE IF class_name \in {"fire", "smoke"} THEN "incident"
  ELSE "normal"

\* A detection of detect_objects, with its centre on one line.
Detected(class_name, cx) ==
  [label |-> class_name, cx |-> cx, type |-> ClassifyDetection(class_name)]

\* YOLODetector._calculate_distance
Distance(obj1, obj2) == Abs(obj1.cx - obj2.cx)

\* What detect_objects returns for the scenes a camera may show; the empty
\* list is also what an unavailable locator returns.
LocatorScenes ==
  { <<>>,
    <<Detected("car", 0), Detected("truck", 30)>>,
    <<Detected("car", 0), Detected("car", 80)>>,
    <<Detected("smoke", 10)>>,
    <<Detected("person", 0), Detected("bus", 60)>>,
    <<Detected("dog", 0)>> }

\* (mutant) the fire check made last, so that it overrides the others.
DetectTrafficIncidentsFireLast(detections) ==
  LET idx == DOMAIN detections
      vehicles == {i \in idx : detections[i].type = "vehicle"}
      persons == {i \in idx : detections[i].type = "person"}
      incidents == {i \in idx : detections[i].type = "incident"}
      collision ==
        \E i, j \in vehicles :
           i < j /\ Distance(detections[i], detections[j]) < CollisionDistance
      pedestrian ==
        \E i \in persons, j \in vehicles :
           Distance(detections[i], detections[j]) < PedestrianDistance
  IN [has_incident |-> incidents # {} \/ collision \/ pedestrian,
      incident_type |-> IF incidents # {} THEN "fire"
                        ELSE IF pedestrian THEN "pedestrian_danger"
                        ELSE IF collision THEN "collision"
                        ELSE "none",
      severity |-> IF incidents # {} \/ collision \/ pedestrian
                   THEN "high" ELSE "low",
      vehicle_count |-> Cardinality(vehicles),
      person_count |-> Cardinality(persons),
      incident_count |-> Cardinality(incidents)]

\* YOLODetector.detect_traffic_incidents, given the detections.
DetectTrafficIncidents(detections) ==
  LET idx == DOMAIN detections
      vehicles == {i \in idx : detections[i].type = "vehicle"}
      persons == {i \in idx : detections[i].type = "person"}
      incidents == {i \in idx : detections[i].type = "incident"}
      collision ==
        \E i, j \in vehicles :
           i < j /\ Distance(detections[i], detections[j]) < CollisionDistance
      pedestrian ==
        \E i \in persons, j \in vehicles :
           Distance(detections[i], detections[j]) < PedestrianDistance
  IN [has_incident |-> incidents # {} \/ collision \/ pedestrian,
      incident_type |-> IF pedestrian THEN "pedestrian_danger"
                        ELSE IF collision THEN "collision"
                        ELSE IF incidents # {} THEN "fire"
                        ELSE "none",
      severity |-> IF incidents # {} \/ collision \/ pedestrian
                   THEN "high" ELSE "low",
      vehicle_count |-> Cardinality(vehicles),
      person_count |-> Cardinality(persons),
      incident_count |-> Cardinality(incidents)]

\* The answer of detect_traffic_incidents for a list of detections, with the
\* bookkeeping of the call: which function ran, whether it raised, and
\* whether the model was missing or inference failed.
Report(op, raised, failed, detections) ==
  [op |-> op, raised |-> raised, failed |-> failed,
   detections |-> detections,
   report |-> DetectTrafficIncidents(detections)]

\* No call of the locator yet.
NoReport == Report("none", FALSE, FALSE, <<>>)

\* Most boxes one inference returns.
MaxBoxes == 4

\* The boxes the model may return: a class name and the centre of the box.
Boxes ==
  { [label |-> "car", cx |-> 0], [label |-> "truck", cx |-> 30],
    [label |-> "car", cx |-> 80], [label |-> "person", cx |-> 60],
    [label |-> "smoke", cx |-> 10], [label |-> "dog", cx |-> 0] }

\* What self.model(frame) does: it raises, or it returns boxes.
Inferences ==
  {[kind |-> "raises", boxes |-> <<>>]} \cup
  {[kind |-> "boxes", boxes |-> b] :
     b \in UNION {[1..n -> Boxes] : n \in 0..MaxBoxes}}

\* (mutant) detect_objects without its except branch.
DetectObjectsUncaught(model_loaded, inference) ==
  IF ~model_loaded THEN [raised |-> FALSE, detections |-> <<>>]
  ELSE IF inference.kind = "raises"
  THEN [raised |-> TRUE, detections |-> <<>>]
  ELSE [raised |-> FALSE,
        detections |-> [i \in DOMAIN inference.boxes |->
                          Detected(inference.boxes[i].label,
                                   inference.boxes[i].cx)]]

\* YOLODetector.detect_objects: the empty list when the model is None
\* (line 50) or anything in the try block raises (line 87), the classified
\* detections otherwise.
DetectObjects(model_loaded, inference) ==
  IF ~model_loaded THEN [raised |-> FALSE, detections |-> <<>>]
  ELSE IF inference.kind = "raises"
  THEN [raised |-> FALSE, detections |-> <<>>]
  ELSE [raised |-> FALSE,
        detections |-> [i \in DOMAIN inference.boxes |->
                          Detected(inference.boxes[i].label,
                                   inference.boxes[i].cx)]]

\* app.py detect_objects: the same, every detection typed 'normal'.
AppDetectObjects(model_loaded, inference) ==
  IF ~model_loaded THEN [raised |-> FALSE, detections |-> <<>>]
  ELSE IF inference.kind = "raises"
  THEN [raised |-> FALSE, detections |-> <<>>]
  ELSE [raised |-> FALSE,
        detections |-> [i \in DOMAIN inference.boxes |->
                          [label |-> inference.boxes[i].label,
                           cx |-> inference.boxes[i].cx,
                           type |-> "normal"]]]

\* No YOLODetector is at work.
YoloIdle ==
  /\ yolo_model = FALSE
  /\ yolo_ret = NoReport

\* The locator has seen nothing.
LocatorIdle == located = <<>> /\ YoloIdle

\* _analyze_with_gemini as a whole: without a model it answers at once
\* (lines 120-121).
AnalyzeWithGeminiOn(model, reply) ==
  IF ~model
  THEN [kind |-> "object",
        obj |-> [has_crash |-> JBool(FALSE), confidence |-> JNum(0)]]
  ELSE AnalyzeWithGemini(reply)

\* The judgment of a direct analyzer call: which analyzer, the dict of
\* RealTimeDetector._analyze_with_gemini, the dict of
\* GeminiAnalyzer.analyze_traffic_scene.
Judgment(analyzer, dict, scene) ==
  [analyzer |-> analyzer, dict |-> dict, scene |-> scene]

NoJudgment == Judgment("none", NoReply, Unparsed)

\* No analyzer was called directly.
AnalyzerIdle == judgment = NoJudgment

\* No synthetic sequence is being fed to the gate.
GateIdle ==
  /\ spike = 0
  /\ spike_score = 0
  /\ gate_idx = 0
  /\ escalations = <<>>

\* No response is being parsed.
ParserIdle ==
  /\ response_text = NoText
  /\ parsed = Unparsed

\* RealTimeDetector.__init__; gemini_model is set when GEMINI_API_KEY is.
Constructed ==
  /\ frame_buffers = <<>>
  /\ last_detection_time = <<>>
  /\ now = 0
  /\ ret = NoDetection("camA", 0, FALSE, "none", FALSE)
  /\ events = [v \in VideoIds |-> <<>>]
  /\ script = [v \in VideoIds |-> 0]
  /\ pc = [p \in Threads |-> "idle"]
  /\ loc = [p \in Threads |-> NoArgs]
  /\ AppLoaded

\* One camera feeds the detector.
Init ==
  /\ Constructed
  /\ AnalyzerIdle
  /\ GateIdle
  /\ ParserIdle
  /\ ScorerIdle
  /\ CrashIdle
  /\ LocatorIdle
  /\ gemini_model \in BOOLEAN
  /\ feeds = {"camA"}
  /\ calls = MaxCalls

\* Two cameras feed the same detector.
InitTwo ==
  /\ Constructed
  /\ AnalyzerIdle
  /\ GateIdle
  /\ ParserIdle
  /\ ScorerIdle
  /\ CrashIdle
  /\ LocatorIdle
  /\ gemini_model = TRUE
  /\ feeds = VideoIds
  /\ calls = MaxCallsTwo

\* Wall-clock time passes between invocations.
Tick ==
  /\ now < MaxTime
  /\ now' = now + 1
  /\ UNCHANGED <<gemini_model, frame_buffers, last_detection_time, feeds, calls,
                 ret, events, script, threads, webapp, gate, parser, scorer,
                 crash, locator, judgment>>

\* One whole invocation of RealTimeDetector.analyze_video_frame.  `incident`
\* says whether the analyzer, asked about this frame, confirms a crash; the
\* analyzer call, when made, takes `latency` seconds and yields `reply`.
AnalyzeVideoFrame(video_id, frame, frame_number, incident) ==
  /\ calls > 0
  /\ UNCHANGED <<gemini_model, feeds, threads, webapp, gate, parser, scorer,
                 crash, locator, judgment>>
  /\ IF frame = NoFrame
     THEN /\ ret' = NoDetection(video_id, frame_number, FALSE, "returned", FALSE)
          /\ UNCHANGED <<frame_buffers, last_detection_time, now, events, script,
                         calls>>
     ELSE
       LET buffers == BufferAppend(frame_buffers, video_id, frame)
           cv_result == AnalyzeWithComputerVision(frame, video_id, buffers)
           confirmed == /\ StrideEligible(frame_number)
                        /\ FirstStagePass(cv_result.confidence)
                        /\ gemini_model
                        /\ incident
       IN
       /\ calls' = calls - 1
       /\ frame_buffers' = buffers
       /\ script' = [script EXCEPT ![video_id] = ScriptStep(@, confirmed, now)]
       /\ IF \/ ~StrideEligible(frame_number)
             \/ InCooldown(last_detection_time, video_id, now)
             \/ ~FirstStagePass(cv_result.confidence)
             \/ ~gemini_model
          THEN /\ ret' = [NoDetection(video_id, frame_number, FALSE,
                                      "returned", confirmed)
                            EXCEPT !.screened =
                              Screened(frame_number, last_detection_time,
                                       video_id, now)]
               /\ UNCHANGED <<last_detection_time, now, events>>
          ELSE
            \E reply \in Replies, latency \in 0..MaxLatency :
              LET g == AnalyzeWithGemini(reply)
                  verdict == ConfirmCheck(g)
                  t == now + latency
              IN
              /\ Confirms(reply) <=> incident
              /\ t <= MaxTime
              /\ now' = t
              /\ IF verdict = "yes"
                 THEN /\ last_detection_time' =
                           DictPut(last_detection_time, video_id, t)
                      /\ ret' = Detection(video_id, frame_number, g)
                      /\ events' = [events EXCEPT ![video_id] =
                                      Append(@, t)]
                 ELSE /\ ret' = Unconfirmed(video_id, frame_number,
                                            IF verdict = "raises" THEN "raised"
                                            ELSE "returned", g)
                      /\ UNCHANGED <<last_detection_time, events>>

Call ==
  \E video_id \in feeds, frame \in Frames \cup {NoFrame},
     frame_number \in FrameNumbers, incident \in BOOLEAN :
       AnalyzeVideoFrame(video_id, frame, frame_number, incident)

Next == Tick \/ Call

Spec == Init /\ [][Next]_vars

SpecTwo == InitTwo /\ [][Next]_vars

\* ------------------------------------------- concurrent invocations
\* Two threads call analyze_video_frame on the same detector and the same
\* source; the method takes no lock, so a thread may be pre-empted between
\* its statements.  Each action below is one stretch of the method.
InitConc ==
  /\ Constructed
  /\ AnalyzerIdle
  /\ GateIdle
  /\ ParserIdle
  /\ ScorerIdle
  /\ CrashIdle
  /\ LocatorIdle
  /\ gemini_model = TRUE
  /\ feeds = {"camA"}
  /\ calls = MaxCallsConc

\* The method returns result r in thread p.
Return(p, r) ==
  /\ pc' = [pc EXCEPT ![p] = "idle"]
  /\ loc' = [loc EXCEPT ![p] = NoArgs]
  /\ ret' = r

\* Lines 39-52: the null test, the frame buffer, the stride test.
Enter(p, video_id, frame, frame_number) ==
  /\ pc[p] = "idle"
  /\ calls > 0
  /\ UNCHANGED <<webapp, gate, parser, scorer, crash, locator, judgment>>
  /\ UNCHANGED <<gemini_model, feeds, last_detection_time, now, events, script>>
  /\ IF frame = NoFrame
     THEN /\ Return(p, NoDetection(video_id, frame_number, FALSE, "returned", FALSE))
          /\ UNCHANGED <<frame_buffers, calls>>
     ELSE /\ calls' = calls - 1
          /\ frame_buffers' = BufferAppend(frame_buffers, video_id, frame)
          /\ IF ~StrideEligible(frame_number)
             THEN Return(p, NoDetection(video_id, frame_number, FALSE, "returned",
                                        FALSE))
             ELSE /\ pc' = [pc EXCEPT ![p] = "entered"]
                  /\ loc' = [loc EXCEPT ![p] =
                               [video |-> video_id, frame |-> frame,
                                frame_number |-> frame_number]]
                  /\ UNCHANGED ret

\* Lines 55-57: the cooldown test.
CheckCooldown(p) ==
  /\ pc[p] = "entered"
  /\ UNCHANGED <<webapp, gate, parser, scorer, crash, locator, judgment>>
  /\ UNCHANGED <<gemini_model, feeds, frame_buffers, last_detection_time, now,
                 events, script, calls>>
  /\ IF InCooldown(last_detection_time, loc[p].video, now)
     THEN Return(p, NoDetection(loc[p].video, loc[p].frame_number, FALSE,
                                "returned", FALSE))
     ELSE /\ pc' = [pc EXCEPT ![p] = "checked"]
          /\ UNCHANGED <<loc, ret>>

\* Lines 60-65 and 118-153: the heuristic, the first-stage test, and the
\* request to the analyzer, which then waits in generate_content.
Heuristic(p) ==
  /\ pc[p] = "checked"
  /\ UNCHANGED <<webapp, gate, parser, scorer, crash, locator, judgment>>
  /\ UNCHANGED <<gemini_model, feeds, frame_buffers, last_detection_time, now,
                 events, script, calls>>
  /\ LET cv_result == AnalyzeWithComputerVision(loc[p].frame, loc[p].video,
                                                frame_buffers)
     IN IF FirstStagePass(cv_result.confidence) /\ gemini_model
        THEN /\ pc' = [pc EXCEPT ![p] = "calling"]
             /\ UNCHANGED <<loc, ret>>
        ELSE Return(p, [NoDetection(loc[p].video, loc[p].frame_number, FALSE,
                                    "returned", FALSE)
                          EXCEPT !.screened = TRUE])

\* The remote service answers the request of thread p with `reply` (or the
\* call raises), and the thread goes on.  Lines 155-167 and 66-78: parse the
\* reply, test it, record the emission.  Nothing in the method bounds the
\* wait for the answer: generate_content is given no timeout.
Finish(p, reply) ==
  /\ pc[p] = "calling"
  /\ UNCHANGED <<webapp, gate, parser, scorer, crash, locator, judgment>>
  /\ UNCHANGED <<gemini_model, feeds, frame_buffers, now, script, calls>>
  /\ LET g == AnalyzeWithGemini(reply)
         verdict == ConfirmCheck(g)
     IN IF verdict = "yes"
        THEN /\ last_detection_time' =
                  DictPut(last_detection_time, loc[p].video, now)
             /\ events' = [events EXCEPT ![loc[p].video] = Append(@, now)]
             /\ Return(p, Detection(loc[p].video, loc[p].frame_number, g))
        ELSE /\ Return(p, Unconfirmed(loc[p].video, loc[p].frame_number,
                                      IF verdict = "raises" THEN "raised"
                                      ELSE "returned", g))
             /\ UNCHANGED <<last_detection_time, events>>

NextConc ==
  \/ Tick
  \/ \E p \in Threads, video_id \in feeds, frame \in Frames \cup {NoFrame},
        frame_number \in FrameNumbers : Enter(p, video_id, frame, frame_number)
  \/ \E p \in Threads : CheckCooldown(p)
  \/ \E p \in Threads : Heuristic(p)
  \/ \E p \in Threads, reply \in Replies : Finish(p, reply)

SpecConc == InitConc /\ [][NextConc]_vars

\* The scheduler runs every thread that can take a step of the method; the
\* remote service and the clock owe the method nothing.
FairSpecConc ==
  /\ InitConc
  /\ [][NextConc]_vars
  /\ \A p \in Threads :
       WF_vars(CheckCooldown(p)) /\ WF_vars(Heuristic(p))

\* ------------------------------------------------------- app.py process_frame
\* No RealTimeDetector takes part: app.py calls the analyzer itself.
InitApp ==
  /\ Constructed
  /\ AnalyzerIdle
  /\ GateIdle
  /\ ParserIdle
  /\ ScorerIdle
  /\ CrashIdle
  /\ LocatorIdle
  /\ gemini_model = TRUE
  /\ feeds = {}
  /\ calls = MaxPosts

\* One POST /api/process-frame.  `decodes` says whether the body holds a frame
\* that cv2.imdecode accepts; `incident` whether the analyzer, asked about the
\* frame, reports has_incident; the collaborators succeed or fail.
ProcessFrame(decodes, incident, topic_configured, publish_ok, storage_ok) ==
  /\ calls > 0
  /\ calls' = calls - 1
  /\ UNCHANGED <<detector, threads, gate, parser, scorer, crash, locator, judgment>>
  /\ IF ~decodes
     THEN /\ resp' = Answer(400, "error", FALSE, FALSE, FALSE)
          /\ UNCHANGED <<total_detections, active_incidents, streak_alerts>>
     ELSE IF ~AnalysisDue(total_detections)
     THEN /\ total_detections' = total_detections + 1
          /\ resp' = Answer(200, "analysis", FALSE, FALSE, FALSE)
          /\ streak_alerts' = IF incident THEN streak_alerts ELSE 0
          /\ UNCHANGED active_incidents
     ELSE
       \E reply \in AppReplies :
         LET gemini_result == AppAnalyzeWithGemini(reply)
             verdict == HasIncident(gemini_result)
         IN
         /\ (verdict = "yes") <=> incident
         /\ IF verdict = "raises"
            THEN /\ resp' = Answer(500, "error", TRUE, FALSE, FALSE)
                 /\ streak_alerts' = 0
                 /\ UNCHANGED <<total_detections, active_incidents>>
            ELSE IF verdict = "yes"
            THEN LET alert == SendAlert(gemini_result.obj, topic_configured,
                                        publish_ok)
                     save == SaveIncidentToDb(gemini_result.obj, storage_ok)
                 IN IF alert.raised
                    THEN /\ resp' = Answer(500, "error", TRUE, FALSE, FALSE)
                         /\ streak_alerts' = streak_alerts + 1
                         /\ UNCHANGED <<total_detections, active_incidents>>
                    ELSE IF save.raised
                    THEN /\ resp' = Answer(500, "error", TRUE, alert.sent,
                                           FALSE)
                         /\ streak_alerts' = streak_alerts + 1
                         /\ UNCHANGED <<total_detections, active_incidents>>
                    ELSE /\ active_incidents' = active_incidents + 1
                         /\ resp' = IncidentAnswer(gemini_result.obj, alert,
                                                   save)
                         /\ streak_alerts' = streak_alerts + 1
                         /\ UNCHANGED total_detections
            ELSE /\ total_detections' = total_detections + 1
                 /\ resp' = Answer(200, "analysis", TRUE, FALSE, FALSE)
                 /\ streak_alerts' = 0
                 /\ UNCHANGED active_incidents

NextApp ==
  \E decodes, incident, topic_configured, publish_ok, storage_ok \in BOOLEAN :
     ProcessFrame(decodes, incident, topic_configured, publish_ok, storage_ok)

SpecApp == InitApp /\ [][NextApp]_vars

\* ----------------------------------------------------- the two-stage gate
\* (mutant) the stride test one frame early.
EscalatesEarly(frame_number, confidence) ==
  (frame_number + 1) % Stride = 0 /\ FirstStagePass(confidence)

\* Lines 50-65 for a source out of cooldown with an analyzer: the frame goes
\* to the analyzer when it is on the stride and its heuristic confidence is
\* above the first-stage threshold.
Escalates(frame_number, confidence) ==
  StrideEligible(frame_number) /\ FirstStagePass(confidence)

\* The synthetic sequence: 0 everywhere but spike_score at frame `spike`.
GateScore(i) == IF i = spike THEN spike_score ELSE 0

InitGate ==
  /\ Constructed
  /\ AnalyzerIdle
  /\ gemini_model = TRUE
  /\ feeds = {}
  /\ calls = 0
  /\ spike \in 0..(GateFrames - 1)
  /\ spike_score \in {CvThreshold, 90}
  /\ gate_idx = 0
  /\ escalations = <<>>
  /\ ParserIdle
  /\ ScorerIdle
  /\ CrashIdle
  /\ LocatorIdle

\* Feed the next frame of the sequence to the gate.
GateStep ==
  /\ gate_idx < GateFrames
  /\ gate_idx' = gate_idx + 1
  /\ escalations' = IF Escalates(gate_idx, GateScore(gate_idx))
                    THEN Append(escalations, gate_idx)
                    ELSE escalations
  /\ UNCHANGED <<spike, spike_score, detector, calls, threads, webapp, parser,
                 scorer, crash, locator, judgment>>

SpecGate == InitGate /\ [][GateStep]_vars

\* ------------------------------------------ GeminiAnalyzer._parse_response
\* JSON null, and the mark of a key the object does not carry.
JNull == [t |-> "null", v |-> 0]

Absent == [t |-> "absent", v |-> 0]

\* The keys of the response object that _parse_response reads.  JSON numbers
\* are in hundredths, so 1.5 is JNum(150) and the count 2 is JNum(200).
Objects ==
  [has_incident : {Absent, JBool(TRUE), JBool(FALSE)},
   confidence : {Absent, JNum(85), JNum(150), JNum(-20), JStr("0.8"),
                 JStr("high"), JNull},
   vehicles_detected : {Absent, JNum(200), JNum(-300), JNum(270), JStr("3"),
                        JStr("two")},
   pedestrians_detected : {Absent, JNum(-100)},
   emergency_vehicles_detected : {Absent, JNum(100)}]

\* What the text between the fences is: not JSON, a JSON array, a JSON
\* scalar, or a JSON object.
Bodies ==
  {[kind |-> k, obj |-> <<>>] : k \in {"garbage", "list", "scalar"}}
    \cup {[kind |-> "object", obj |-> o] : o \in Objects}

\* A response text: the body bare, or behind ```json, ``` or ```<other label>,
\* with or without the closing fence.
ResponseTexts ==
  {x \in [fence : {"none", "json", "bare", "labelled"}, closed : BOOLEAN,
          body : Bodies] : x.fence = "none" => x.closed}

\* Lines 164-170: strip, then cut the opening fence and the last three
\* characters.  A label other than json stays in front of the body, and
\* without a closing fence the cut takes the end of the body itself; neither
\* is JSON any more.
StripFence(text) ==
  IF text.fence = "none" \/ (text.fence \in {"json", "bare"} /\ text.closed)
  THEN text.body
  ELSE [kind |-> "garbage", obj |-> <<>>]

\* The strings float() and int() accept, with their values.
FloatLiterals == [s \in {"0.8", "3"} |-> IF s = "0.8" THEN 80 ELSE 300]

IntLiterals == [s \in {"3"} |-> 3]

\* float(x), in hundredths.
ToFloat(x) ==
  CASE x.t = "num" -> [ok |-> TRUE, v |-> x.v]
    [] x.t = "bool" -> [ok |-> TRUE, v |-> IF x.v THEN 100 ELSE 0]
    [] x.t = "str" /\ x.v \in DOMAIN FloatLiterals ->
         [ok |-> TRUE, v |-> FloatLiterals[x.v]]
    [] OTHER -> [ok |-> FALSE, v |-> 0]

\* int(x): a number is truncated toward zero.
ToInt(x) ==
  CASE x.t = "num" ->
         [ok |-> TRUE,
          v |-> IF x.v >= 0 THEN x.v \div 100 ELSE -((-x.v) \div 100)]
    [] x.t = "bool" -> [ok |-> TRUE, v |-> IF x.v THEN 1 ELSE 0]
    [] x.t = "str" /\ x.v \in DOMAIN IntLiterals ->
         [ok |-> TRUE, v |-> IntLiterals[x.v]]
    [] OTHER -> [ok |-> FALSE, v |-> 0]

\* dict.get(field, default)
Get(obj, field, default) == IF obj[field] = Absent THEN default ELSE obj[field]

\* GeminiAnalyzer._get_default_value for the fields read here.
GetDefaultValue(field) ==
  CASE field = "has_incident" -> JBool(FALSE)
    [] field = "confidence" -> JNum(0)
    [] OTHER -> JNum(0)

\* GeminiAnalyzer._get_default_response
GetDefaultResponse ==
  [state |-> "returned", has_incident |-> JBool(FALSE), confidence |-> 0,
   vehicles_detected |-> 0, pedestrians_detected |-> 0,
   emergency_vehicles_detected |-> 0]

Failure(exc) == [exc |-> exc, value |-> GetDefaultResponse]

\* The body of the try block, lines 163-189, with the exception it ends in.
TryParse(text) ==
  LET result == StripFence(text)
  IN IF result.kind = "garbage" THEN Failure("JSONDecodeError")
     ELSE IF result.kind # "object" THEN Failure("TypeError")
     ELSE LET has_incident == Get(result.obj, "has_incident",
                                  GetDefaultValue("has_incident"))
              filled == Get(result.obj, "confidence",
                            GetDefaultValue("confidence"))
              confidence == ToFloat(filled)
              vehicles == ToInt(Get(result.obj, "vehicles_detected", JNum(0)))
              pedestrians ==
                ToInt(Get(result.obj, "pedestrians_detected", JNum(0)))
              emergency ==
                ToInt(Get(result.obj, "emergency_vehicles_detected", JNum(0)))
          IN IF ~confidence.ok
             THEN Failure(IF filled.t = "str" THEN "ValueError"
                          ELSE "TypeError")
             ELSE IF ~(vehicles.ok /\ pedestrians.ok /\ emergency.ok)
             THEN Failure("ValueError")
             ELSE [exc |-> "none",
                   value |-> [state |-> "returned",
                              has_incident |-> has_incident,
                              confidence |-> confidence.v,
                              vehicles_detected |-> vehicles.v,
                              pedestrians_detected |-> pedestrians.v,
                              emergency_vehicles_detected |-> emergency.v]]

\* GeminiAnalyzer._parse_response: the try block and its two handlers.
ParseResponse(text) ==
  LET r == TryParse(text)
  IN IF r.exc = "none" THEN r.value
     ELSE IF r.exc = "JSONDecodeError" THEN GetDefaultResponse
     ELSE GetDefaultResponse

\* What generate_content gives analyze_traffic_scene: it raises, or it
\* returns one of these texts.
SceneAnswers ==
  {[raises |-> TRUE, text |-> NoText]} \cup
  {[raises |-> FALSE, text |-> x] :
     x \in {y \in ResponseTexts :
              /\ y.fence \in {"none", "json"}
              /\ y.body.kind = "object" =>
                   /\ y.body.obj.vehicles_detected = Absent
                   /\ y.body.obj.pedestrians_detected = Absent
                   /\ y.body.obj.emergency_vehicles_detected = Absent}}

\* (mutant) analyze_traffic_scene without the test of line 50.
AnalyzeTrafficSceneUnguarded(model, answer) ==
  IF answer.raises THEN GetDefaultResponse
  ELSE ParseResponse(answer.text)

\* GeminiAnalyzer.analyze_traffic_scene: the default response without a
\* model (lines 50-51) and when the call raises (lines 73-75), the parsed
\* response otherwise.
AnalyzeTrafficScene(model, answer) ==
  IF ~model THEN GetDefaultResponse
  ELSE IF answer.raises THEN GetDefaultResponse
  ELSE ParseResponse(answer.text)

InitParse ==
  /\ Constructed
  /\ AnalyzerIdle
  /\ GateIdle
  /\ gemini_model = TRUE
  /\ feeds = {}
  /\ calls = 0
  /\ response_text \in ResponseTexts
  /\ parsed = Unparsed
  /\ ScorerIdle
  /\ CrashIdle
  /\ LocatorIdle

\* One call of _parse_response on the text.
Parse ==
  /\ parsed.state = "pending"
  /\ parsed' = ParseResponse(response_text)
  /\ UNCHANGED <<response_text, detector, calls, threads, webapp, gate,
                 scorer, crash, locator, judgment>>

SpecParse == InitParse /\ [][Parse]_vars

\* ------------------------------------------------------------ CrashDetector
\* The vectors with the lowest motion ratio, object count and debris score;
\* the three actions reach every other vector from them.
InitScore ==
  /\ Constructed
  /\ AnalyzerIdle
  /\ GateIdle
  /\ ParserIdle
  /\ CrashIdle
  /\ gemini_model = TRUE
  /\ feeds = {}
  /\ calls = 0
  /\ LocatorIdle
  /\ features \in {f \in FeatureVectors :
                     f.vehicles = 0 /\ f.debris = 0 /\ f.motion_ratio = 0}
  /\ crash_probability = Score(features)

\* Score the vector with one feature raised and the others as they are.
Rescore(f) ==
  /\ features' = f
  /\ crash_probability' = Score(f)
  /\ UNCHANGED <<detector, calls, threads, webapp, gate, parser, crash,
                 locator, judgment>>

RaiseMotion ==
  \E m \in MotionRatios :
     /\ m > features.motion_ratio
     /\ Rescore([features EXCEPT !.motion_ratio = m])

RaiseObjects ==
  /\ features.vehicles < MaxVehicles
  /\ Rescore([features EXCEPT !.vehicles = @ + 1])

RaiseDebris ==
  \E d \in DebrisValues :
     /\ d > features.debris
     /\ Rescore([features EXCEPT !.debris = d])

NextScore == RaiseMotion \/ RaiseObjects \/ RaiseDebris

SpecScore == InitScore /\ [][NextScore]_vars

InitCrash ==
  /\ Constructed
  /\ AnalyzerIdle
  /\ GateIdle
  /\ ParserIdle
  /\ ScorerIdle
  /\ CrashIdle
  /\ LocatorIdle
  /\ gemini_model = TRUE
  /\ feeds = {}
  /\ calls = 1

\* One call of detect_crash_in_frame.
DetectCrash(frame, previous_frame) ==
  /\ calls > 0
  /\ calls' = calls - 1
  /\ cd_frame' = frame
  /\ cd_previous_frame' = previous_frame
  /\ cd_result' = DetectCrashInFrame(frame, previous_frame)
  /\ UNCHANGED <<detector, threads, webapp, gate, parser, scorer,
                 locator, judgment>>

NextCrash ==
  \E frame \in CrashFrames \cup {NoCrashFrame},
     previous_frame \in CrashFrames \cup {NoCrashFrame} :
       DetectCrash(frame, previous_frame)

SpecCrash == InitCrash /\ [][NextCrash]_vars

\* ------------------------------------------- the detector and the locator
\* The camera shows a scene in which the locator detects `located`; the
\* frames of the scene go to RealTimeDetector.analyze_video_frame.
InitLocator ==
  /\ Constructed
  /\ AnalyzerIdle
  /\ GateIdle
  /\ ParserIdle
  /\ ScorerIdle
  /\ CrashIdle
  /\ gemini_model = TRUE
  /\ feeds = {"camA"}
  /\ calls = 2
  /\ located \in LocatorScenes
  /\ YoloIdle

SpecLocator == InitLocator /\ [][Next]_vars

\* ------------------------------------------------- both ways to an incident
\* Frames go to RealTimeDetector.analyze_video_frame and to process_frame.
InitRoundTrip ==
  /\ Constructed
  /\ AnalyzerIdle
  /\ GateIdle
  /\ ParserIdle
  /\ ScorerIdle
  /\ CrashIdle
  /\ LocatorIdle
  /\ gemini_model = TRUE
  /\ feeds = {"camA"}
  /\ calls = 3

NextRoundTrip == Call \/ NextApp

SpecRoundTrip == InitRoundTrip /\ [][NextRoundTrip]_vars

\* ------------------------------------------------------ the object locator
\* A YOLODetector after __init__ (load_model succeeded or failed) and app.py
\* with yolo_model loaded or None; one frame is given to the locator.
InitYolo ==
  /\ Constructed
  /\ AnalyzerIdle
  /\ GateIdle
  /\ ParserIdle
  /\ ScorerIdle
  /\ CrashIdle
  /\ located = <<>>
  /\ yolo_ret = NoReport
  /\ yolo_model \in BOOLEAN
  /\ gemini_model = FALSE
  /\ feeds = {"camA"}
  /\ calls = 1

\* YOLODetector.detect_traffic_incidents(frame)
LocateIncidents(inference) ==
  /\ calls > 0
  /\ calls' = calls - 1
  /\ LET d == DetectObjects(yolo_model, inference)
         failed == ~yolo_model \/ inference.kind = "raises"
     IN yolo_ret' = Report("detect_traffic_incidents", d.raised, failed,
                           d.detections)
  /\ UNCHANGED <<gemini_model, frame_buffers, last_detection_time, now, feeds,
                 ret, events, script, threads, webapp, gate, parser, scorer,
                 crash, located, yolo_model, judgment>>

\* app.py detect_objects(frame)
LocateObjects(inference) ==
  /\ calls > 0
  /\ calls' = calls - 1
  /\ LET d == AppDetectObjects(yolo_model, inference)
         failed == ~yolo_model \/ inference.kind = "raises"
     IN yolo_ret' = Report("detect_objects", d.raised, failed, d.detections)
  /\ UNCHANGED <<gemini_model, frame_buffers, last_detection_time, now, feeds,
                 ret, events, script, threads, webapp, gate, parser, scorer,
                 crash, located, yolo_model, judgment>>

NextYolo ==
  \/ \E inference \in Inferences : LocateIncidents(inference)
  \/ \E inference \in Inferences : LocateObjects(inference)

SpecYolo == InitYolo /\ [][NextYolo]_vars

\* ------------------------------------------- with and without an analyzer
\* A detector and a GeminiAnalyzer whose model is loaded or None, both the
\* same way; frames are delivered and the analyzers are also asked directly.
InitAbsent ==
  /\ Constructed
  /\ AnalyzerIdle
  /\ GateIdle
  /\ ParserIdle
  /\ ScorerIdle
  /\ CrashIdle
  /\ LocatorIdle
  /\ gemini_model \in BOOLEAN
  /\ feeds = {"camA"}
  /\ calls = 3

\* RealTimeDetector._analyze_with_gemini(frame)
AskDetector(reply) ==
  /\ judgment' = Judgment("detector", AnalyzeWithGeminiOn(gemini_model, reply),
                          Unparsed)
  /\ UNCHANGED <<detector, calls, threads, webapp, gate, parser, scorer,
                 crash, locator>>

\* GeminiAnalyzer.analyze_traffic_scene(frame)
AskScene(answer) ==
  /\ judgment' = Judgment("scene", NoReply,
                          AnalyzeTrafficScene(gemini_model, answer))
  /\ UNCHANGED <<detector, calls, threads, webapp, gate, parser, scorer,
                 crash, locator>>

NextAbsent ==
  \/ Call
  \/ \E reply \in Replies : AskDetector(reply)
  \/ \E answer \in SceneAnswers : AskScene(answer)

SpecAbsent == InitAbsent /\ [][NextAbsent]_vars

\* ------------------------------------------------ a long run of one camera
\* More frames than the buffer holds are delivered, back to back.
InitBuffer ==
  /\ Constructed
  /\ AnalyzerIdle
  /\ GateIdle
  /\ ParserIdle
  /\ ScorerIdle
  /\ CrashIdle
  /\ LocatorIdle
  /\ gemini_model = TRUE
  /\ feeds = {"camA"}
  /\ calls = BufferCalls

NextBuffer == Call

SpecBuffer == InitBuffer /\ [][NextBuffer]_vars

\* ------------------------------------------------------------ simple_app.py
InitSimple ==
  /\ Constructed
  /\ AnalyzerIdle
  /\ GateIdle
  /\ ParserIdle
  /\ ScorerIdle
  /\ CrashIdle
  /\ LocatorIdle
  /\ gemini_model = TRUE
  /\ feeds = {}
  /\ calls = SimplePosts

\* One POST /api/process-frame of simple_app.py.
SimpleProcessFrame ==
  /\ calls > 0
  /\ calls' = calls - 1
  /\ IF total_detections % SimulateEvery = 0
     THEN /\ active_incidents' = active_incidents + 1
          /\ resp' = SimulatedAnswer(now)
          /\ UNCHANGED total_detections
     ELSE /\ total_detections' = total_detections + 1
          /\ resp' = Answer(200, "analysis", FALSE, FALSE, FALSE)
          /\ UNCHANGED active_incidents
  /\ UNCHANGED <<detector, threads, streak_alerts, gate, parser, scorer,
                 crash, locator, judgment>>

NextSimple == Tick \/ SimpleProcessFrame

SpecSimple == InitSimple /\ [][NextSimple]_vars

\* ------------------------------------------------------------------ claims
Last(seq) == seq[Len(seq)]

\* A step that is an invocation on a non-null frame.
FrameDelivered == calls' = calls - 1

\* Source v is out of its cooldown window at the time of the cooldown check:
\* it has emitted nothing yet, or its last emission is at least 10 s old.
OutOfWindow(v) == events[v] = <<>> \/ now - Last(events[v]) >= Cooldown

\* A confirmed incident is emitted exactly when its source is out of window.
EmitIffOutOfWindow ==
  (FrameDelivered /\ ret'.confirmed) =>
     (ret'.has_crash <=> OutOfWindow(ret'.video))

\* Any two emissions of one source are at least 10 seconds apart.
EmissionsApart ==
  \A v \in VideoIds : \A i, j \in DOMAIN events[v] :
     i < j => events[v][j] - events[v][i] >= Cooldown

\* Confirmed incidents arriving at 0, 3, 7 and 12 s, the first emitted at 0 s,
\* give exactly two emissions: that one and the one of the incident at 12 s.
ScenarioTwoEmissions ==
  \A v \in VideoIds :
     /\ script[v] >= 1 => events[v] # <<>>
     /\ (script[v] = Len(ScenarioTimes) /\ events[v][1] = 0) =>
           /\ Len(events[v]) = 2
           /\ events[v][2] >= ScenarioTimes[Len(ScenarioTimes)]

OtherSourcesUntouched ==
  FrameDelivered =>
    \A w \in VideoIds \ {ret'.video} :
       /\ events'[w] = events[w]
       /\ (w \in DOMAIN last_detection_time') = (w \in DOMAIN last_detection_time)
       /\ w \in DOMAIN last_detection_time =>
             last_detection_time'[w] = last_detection_time[w]

\* C2: cooldown is per source.  With two sources interleaved, a confirmed
\* incident of a source is emitted exactly when that source itself is out of
\* its window, whatever the other source emitted, and a call on one source
\* changes nothing of the other's cooldown state.
C2_PerSourceCooldown ==
  /\ [][EmitIffOutOfWindow]_vars
  /\ [][OtherSourcesUntouched]_vars

\* Both sources emitted, less than 10 s apart from each other.
C2_Witness ==
  /\ events["camA"] # <<>>
  /\ events["camB"] # <<>>
  /\ events["camB"][1] - events["camA"][1] < Cooldown
  /\ events["camA"][1] - events["camB"][1] < Cooldown

\* C5: on a frame whose index is not a multiple of 30 the analyzer is not
\* invoked and no incident is emitted.
C5_OffStrideNeverEscalates ==
  ret.frame_number % Stride # 0 => ~ret.analyzed /\ ~ret.has_crash

\* An off-stride frame was skipped although the analyzer is available, the
\* source is out of its window and the heuristic is above the threshold.
C5_Witness ==
  /\ ret.outcome = "returned"
  /\ ret.frame_number % Stride # 0
  /\ gemini_model
  /\ OutOfWindow(ret.video)
  /\ ret.video \in DOMAIN frame_buffers
  /\ AnalyzeWithComputerVision(Last(frame_buffers[ret.video]), ret.video,
                               frame_buffers).confidence > CvThreshold

\* C3: two invocations for the same source that run concurrently never both
\* emit within one cooldown window: no two emissions of a source are less
\* than 10 s apart.
C3_OneEmissionPerWindow ==
  \A v \in VideoIds :
     ~ \E i, j \in DOMAIN events[v] :
          i < j /\ events[v][j] - events[v][i] < Cooldown

\* C10: every call to the analyzer completes: a thread waiting for the
\* service eventually stops waiting.
C10_AnalyzerCallCompletes ==
  \A p \in Threads : (pc[p] = "calling") ~> (pc[p] # "calling")

\* C4: in app.py process_frame a sustained incident (the analyzer confirming
\* has_incident on every consecutive frame) produces one alert: send_alert is
\* not called again for the following frames of the same incident.
C4_OneAlertPerSustainedIncident == streak_alerts <= 1

\* C9: whatever the analyzer yields (an exception, unparsable text, JSON
\* that lacks has_crash or confidence or is not an object),
\* analyze_video_frame returns a result and does not raise, and
\* process_frame does not answer with an error for the frame.
C9_AlwaysAResult == ret.outcome # "raised" /\ resp.status # 500

\* The whole sequence has been fed to the gate.
GateDone == gate_idx = GateFrames

\* C6: with stride 30 and first-stage threshold 0.6, 100 frames that score 0
\* except one spike of 0.9 escalate exactly once when the spike is on a
\* frame whose index is a multiple of 30, at that frame, and never
\* otherwise; the sequence [0]*29 + [0.9] + [0]*70, whose spike is at frame
\* 29, escalates zero times.
C6_SpikeEscalatesOnStrideOnly ==
  GateDone =>
    /\ escalations = IF spike % Stride = 0 /\ spike_score > CvThreshold
                     THEN <<spike>>
                     ELSE <<>>
    /\ (spike = Stride - 1 /\ spike_score = 90) => escalations = <<>>

\* The sequence of the claim ran to its end: spike of 0.9 at frame 29.
C6_Witness ==
  /\ GateDone
  /\ spike = Stride - 1
  /\ spike_score = 90
  /\ escalations = <<>>

\* C6 as stated: that sequence escalates exactly once, at frame 29.
C6_EscalatesOnceAtFrame29 ==
  (GateDone /\ spike = Stride - 1 /\ spike_score = 90) =>
     escalations = <<Stride - 1>>

\* The text is malformed in one of the ways of C7: it does not parse, or it
\* is an object that lacks confidence, or whose confidence or one of whose
\* counts is not numeric.
Unparsable(text) == StripFence(text).kind = "garbage"

MissingConfidence(text) ==
  StripFence(text).kind = "object" /\ StripFence(text).obj.confidence = Absent

NonNumeric(text) ==
  /\ StripFence(text).kind = "object"
  /\ LET o == StripFence(text).obj
     IN \/ o.confidence # Absent /\ ~ToFloat(o.confidence).ok
        \/ \E f \in {"vehicles_detected", "pedestrians_detected",
                     "emergency_vehicles_detected"} :
              o[f] # Absent /\ ~ToInt(o[f]).ok

\* C7: _parse_response never raises, and for output that is unparsable,
\* lacks confidence, or carries a non-numeric confidence or count it returns
\* confidence 0.0 and has_incident false.
C7_MalformedYieldsDefault ==
  parsed.state # "pending" =>
    /\ parsed.state = "returned"
    /\ (Unparsable(response_text) \/ MissingConfidence(response_text)
          \/ NonNumeric(response_text)) =>
           /\ parsed.confidence = 0
           /\ parsed.has_incident = JBool(FALSE)

\* C8: every judgment returned by _parse_response has confidence in [0,1]
\* and the three counts non-negative.
C8_RangesHold ==
  parsed.state = "returned" =>
    /\ parsed.confidence \in 0..100
    /\ parsed.vehicles_detected >= 0
    /\ parsed.pedestrians_detected >= 0
    /\ parsed.emergency_vehicles_detected >= 0

\* A step that raises motion ratio, object count or debris score and leaves
\* every other feature as it is.
OneFeatureRaised ==
  /\ features' # features
  /\ features'.motion_ratio >= features.motion_ratio
  /\ features'.vehicles >= features.vehicles
  /\ features'.debris >= features.debris
  /\ features'.collision_risk = features.collision_risk
  /\ features'.orientation_anomaly = features.orientation_anomaly

\* C11: the crash probability (_detect_crash_indicators followed by
\* _calculate_crash_probability) does not decrease when motion ratio, object
\* count or debris score is raised and the other features are held fixed.
C11_ScoreMonotone ==
  [][OneFeatureRaised => crash_probability' >= crash_probability]_vars

\* Raising features took a vector from a probability of 0 across the
\* indicator bar to a probability above the crash threshold.
C11_Witness ==
  /\ features.vehicles >= 2
  /\ features.debris > 0
  /\ features.motion_ratio > 0
  /\ DetectCrashIndicators(features.vehicles, features.collision_risk,
                           features.orientation_anomaly,
                           features.debris).confidence > 0
  /\ crash_probability > CrashThreshold
  /\ crash_probability < One

\* detect_crash_in_frame has examined a frame.
Examined == cd_frame # NoCrashFrame

AllBlack(frame) == \A i \in Pixels : frame.gray[i] = 0

\* The base indicator confidence and the boost for the vehicles, for a frame
\* without motion.
StillProbability(frame) ==
  LET average == 10 * (frame.collision_risk + frame.orientation_anomaly
                         + frame.debris)
  IN Min(One, (IF frame.vehicles >= 2 /\ average > IndicatorThreshold
               THEN average ELSE 0)
              + Min(300 * frame.vehicles, 900))

\* C12: for an all-black frame detect_crash_in_frame reports no motion and
\* a crash probability of 0.  For a frame identical to its previous frame
\* the motion ratio is 0; the crash probability is 0 when no vehicle is
\* found in the frame, and otherwise it is the base indicator confidence
\* plus the vehicle boost, which is above 0 and can exceed the crash
\* threshold.
C12_StillFrames ==
  Examined =>
    /\ AllBlack(cd_frame) =>
         /\ cd_result.motion_ratio = 0
         /\ ~cd_result.motion_detected
         /\ cd_result.crash_probability = 0
         /\ ~cd_result.has_crash
    /\ cd_frame = cd_previous_frame =>
         /\ cd_result.motion_ratio = 0
         /\ MotionRatio(cd_frame.gray, cd_previous_frame.gray) = 0
         /\ cd_frame.vehicles = 0 => cd_result.crash_probability = 0
         /\ cd_frame.vehicles > 0 =>
              /\ cd_result.crash_probability = StillProbability(cd_frame)
              /\ cd_result.crash_probability > 0

\* A frame identical to its previous frame, with vehicles in it, is reported
\* as a crash.
C12_Witness ==
  /\ Examined
  /\ cd_frame = cd_previous_frame
  /\ cd_frame.vehicles >= 2
  /\ cd_result.motion_ratio = 0
  /\ cd_result.has_crash

\* C12 as stated: all-black frames and frames identical to their previous
\* frame have motion ratio 0 and crash probability 0.
C12_StillFramesScoreZero ==
  (Examined /\ (AllBlack(cd_frame) \/ cd_frame = cd_previous_frame)) =>
     /\ cd_result.motion_ratio = 0
     /\ cd_result.crash_probability = 0

\* The simple average of proximity risk, anomaly score and debris score.
Average(f) == 10 * (f.collision_risk + f.orientation_anomaly + f.debris)

\* The two boosts: 0.3 * min(10 * motion_ratio, 1) and
\* min(0.1 * object_count, 0.3).
Boosts(f) == 9 * Min(10 * f.motion_ratio, 100) + Min(300 * f.vehicles, 900)

\* C13: the crash probability is 0 when there is no object; otherwise it is
\* min(1, B + 0.3*min(10*motion_ratio, 1) + min(0.1*object_count, 0.3)),
\* where B is the average of proximity risk, anomaly score and debris score
\* when there are at least two objects and the average is above 0.6, and 0
\* otherwise.
C13_GatedAverageFormula ==
  crash_probability =
    IF features.vehicles = 0 THEN 0
    ELSE Min(One, (IF features.vehicles >= 2
                      /\ Average(features) > IndicatorThreshold
                   THEN Average(features) ELSE 0) + Boosts(features))

\* Two vehicles and an average of 0.5: only the boosts count.
C13_Witness ==
  /\ features.vehicles >= 2
  /\ Average(features) > 0
  /\ Average(features) <= IndicatorThreshold
  /\ features.motion_ratio > 0
  /\ crash_probability = Boosts(features)

\* C13 as stated: B is the average for every value of the average.
C13_AverageFormula ==
  crash_probability = Min(One, Average(features) + Boosts(features))

\* The probability of the examined frame, from its features and the motion
\* against the previous frame.
ExaminedProbability ==
  Score([vehicles |-> cd_frame.vehicles,
         collision_risk |-> cd_frame.collision_risk,
         orientation_anomaly |-> cd_frame.orientation_anomaly,
         debris |-> cd_frame.debris,
         motion_ratio |-> IF cd_previous_frame = NoCrashFrame THEN 0
                          ELSE MotionRatio(cd_frame.gray,
                                           cd_previous_frame.gray)])

\* C14: detect_crash_in_frame reports has_crash with crash_type 'collision'
\* (and the probability as confidence) exactly when the crash probability
\* is above 0.7; otherwise it reports has_crash false, crash_type 'none'
\* and confidence 0.0.
C14_ThresholdClassification ==
  Examined =>
    /\ cd_result.has_crash <=> ExaminedProbability > CrashThreshold
    /\ cd_result.has_crash =>
         /\ cd_result.crash_type = "collision"
         /\ cd_result.confidence = ExaminedProbability
    /\ ~cd_result.has_crash =>
         /\ cd_result.crash_type = "none"
         /\ cd_result.confidence = 0

\* A frame with vehicles was classified as a collision.
C14_Witness ==
  /\ Examined
  /\ cd_result.has_crash
  /\ cd_result.crash_type = "collision"
  /\ cd_result.confidence > CrashThreshold

\* The analyzer's dict says has_crash with a confidence above 0.4.
SaysCrashAboveFinal(g) ==
  /\ g.kind = "object"
  /\ "has_crash" \in DOMAIN g.obj
  /\ g.obj.has_crash = JBool(TRUE)
  /\ "confidence" \in DOMAIN g.obj
  /\ g.obj.confidence.t = "num"
  /\ g.obj.confidence.v > FinalThreshold

\* A frame of a source out of its window is emitted exactly when the
\* analyzer was asked and said so.
EmitIffEscalatedAndConfirmed ==
  (FrameDelivered /\ OutOfWindow(ret'.video)) =>
     (ret'.has_crash <=> (ret'.analyzed /\ SaysCrashAboveFinal(ret'.reply)))

\* An emission stamps its source with the time of the emission.
EmissionStamps ==
  (FrameDelivered /\ ret'.has_crash) =>
     /\ ret'.video \in DOMAIN last_detection_time'
     /\ last_detection_time'[ret'.video] = now'
     /\ events'[ret'.video] = Append(events[ret'.video], now')

\* The timestamps change on no other step.
StampOnlyOnEmission ==
  last_detection_time' # last_detection_time =>
     /\ FrameDelivered
     /\ ret'.has_crash
     /\ \A w \in DOMAIN last_detection_time \ {ret'.video} :
           last_detection_time'[w] = last_detection_time[w]

\* C15: for a source that is not in cooldown, analyze_video_frame emits an
\* incident exactly when the gate escalates and the analyzer returns
\* has_crash with confidence strictly above 0.4; every emission records the
\* source's emission timestamp, and the timestamp is written on no other
\* path.
C15_EmitOnConfirmation ==
  /\ [][EmitIffEscalatedAndConfirmed]_vars
  /\ [][EmissionStamps]_vars
  /\ [][StampOnlyOnEmission]_vars

\* The analyzer said has_crash with confidence exactly 0.4 and nothing was
\* emitted.
C15_Witness ==
  /\ ret.analyzed
  /\ ret.outcome = "returned"
  /\ ~ret.has_crash
  /\ ret.reply.kind = "object"
  /\ "confidence" \in DOMAIN ret.reply.obj
  /\ "has_crash" \in DOMAIN ret.reply.obj
  /\ ret.reply.obj.has_crash = JBool(TRUE)
  /\ ret.reply.obj.confidence = JNum(FinalThreshold)
  /\ ret.video \notin DOMAIN last_detection_time

\* A frame arriving inside the window of its source is not analysed, not
\* emitted, and changes no timestamp.
SuppressedLeavesWindow ==
  (FrameDelivered /\ ~OutOfWindow(ret'.video)) =>
     /\ ~ret'.has_crash
     /\ ~ret'.analyzed
     /\ ret'.outcome = "returned"
     /\ last_detection_time' = last_detection_time
     /\ events' = events

\* C16: a frame that arrives for a source while now - last emission < 10 s
\* returns the no-detection result and leaves the source's last-emission
\* timestamp unchanged.
C16_SuppressedFrameKeepsWindow == [][SuppressedLeavesWindow]_vars

\* A confirmed incident arrived inside the window and was discarded; the
\* window still counts from the emission.
C16_Witness ==
  /\ ret.confirmed
  /\ ~ret.has_crash
  /\ ~ret.analyzed
  /\ events[ret.video] # <<>>
  /\ now - Last(events[ret.video]) < Cooldown
  /\ now - Last(events[ret.video]) > 0
  /\ last_detection_time[ret.video] = Last(events[ret.video])

\* The heuristic confidence of the frame the last call was about.
HeuristicOfLast ==
  AnalyzeWithComputerVision(Last(frame_buffers[ret.video]), ret.video,
                            frame_buffers).confidence

\* C17: the analyzer is invoked only if the heuristic confidence is
\* strictly above the first-stage threshold 0.6.
C17_EscalateOnlyAboveFirstStage ==
  ret.analyzed => HeuristicOfLast > CvThreshold

\* An eligible frame of a source out of its window, with the analyzer
\* available and a heuristic confidence of 0.5, was not escalated.
C17_Witness ==
  /\ ret.outcome = "returned"
  /\ ret.frame_number % Stride = 0
  /\ gemini_model
  /\ ret.video \in DOMAIN frame_buffers
  /\ events[ret.video] = <<>>
  /\ HeuristicOfLast = CvCrowdConfidence
  /\ ~ret.analyzed

\* The locator reports two vehicles closer than the collision distance, or a
\* fire or smoke detection.
HardOverride(detections) ==
  \/ \E i \in DOMAIN detections : detections[i].label \in {"fire", "smoke"}
  \/ \E i, j \in DOMAIN detections :
        /\ i < j
        /\ detections[i].type = "vehicle"
        /\ detections[j].type = "vehicle"
        /\ Distance(detections[i], detections[j]) < CollisionDistance

\* An eligible frame of a scene with such detections goes to the analyzer.
OverrideEscalates ==
  (/\ FrameDelivered
   /\ ret'.frame_number % Stride = 0
   /\ OutOfWindow(ret'.video)
   /\ gemini_model
   /\ HardOverride(located)
   /\ DetectTrafficIncidents(located).has_incident) => ret'.analyzed

\* C18: on an eligible frame, whenever the locator returns at least two
\* proximate vehicle detections or a fire/smoke detection, the pipeline
\* escalates to the analyzer regardless of the heuristic score.
C18_LocatorOverride == [][OverrideEscalates]_vars

\* The event analyze_video_frame returned carries the confidence of the
\* analyzer's dict, and its crash type and severity where the dict has them.
EventPreserves ==
  ret.has_crash =>
    /\ ret.confidence = ret.reply.obj.confidence
    /\ "crash_type" \in DOMAIN ret.reply.obj =>
          ret.crash_type = ret.reply.obj.crash_type
    /\ "severity" \in DOMAIN ret.reply.obj =>
          ret.severity = ret.reply.obj.severity

\* The alert message and the stored item carry the values of the incident
\* of the response.
AlertAndItemPreserve ==
  /\ resp.message.built =>
       /\ resp.message.type = resp.incident.incident_type
       /\ resp.message.severity = resp.incident.severity
       /\ resp.message.confidence = resp.incident.confidence
  /\ resp.item.built =>
       /\ resp.item.incident_type = resp.incident.incident_type
       /\ resp.item.severity = resp.incident.severity
       /\ resp.item.confidence = resp.incident.confidence

\* C19: an emitted incident preserves the judgment's incident type, severity
\* and confidence: the event returned by analyze_video_frame, the alert
\* message built by send_alert and the item stored by save_incident_to_db
\* carry exactly the values of the judgment they were built from.
C19_IncidentPreservesJudgment == EventPreserves /\ AlertAndItemPreserve

\* An event was returned for a judgment of type fire, and an alert was sent
\* and an item stored for a judgment of confidence 0.9.
C19_Witness ==
  /\ ret.has_crash
  /\ ret.crash_type = JStr("fire")
  /\ ret.severity = JStr("low")
  /\ ret.confidence = JNum(90)
  /\ resp.alert_sent
  /\ resp.saved
  /\ resp.message.confidence = JNum(90)
  /\ resp.item.incident_type = JStr("collision")

\* A request was handled and send_alert was called for it: the analyzer
\* confirmed an incident.
IncidentConfirmed == calls' = calls - 1 /\ streak_alerts' = streak_alerts + 1

\* The incident is answered whatever the collaborators did.
CollaboratorFailureAbsorbed ==
  IncidentConfirmed =>
    /\ resp'.status = 200
    /\ resp'.kind = "incident"
    /\ resp'.incident # <<>>
    /\ active_incidents' = active_incidents + 1
    /\ resp'.alert_calls = 1
    /\ resp'.save_calls = 1

\* C20: in process_frame, when the analyzer confirms an incident, a failure
\* of send_alert or save_incident_to_db is not propagated: the response
\* still carries the incident (alert_sent false or incident_id null),
\* active_incidents is incremented by one, and each collaborator is called
\* once for the frame.
C20_CollaboratorFailuresAbsorbed == [][CollaboratorFailureAbsorbed]_vars

\* An incident with all its fields was answered although the alert was not
\* sent and the item not stored.
C20_Witness ==
  /\ resp.status = 200
  /\ resp.kind = "incident"
  /\ IncidentFields \subseteq DOMAIN resp.incident
  /\ ~resp.alert_sent
  /\ ~resp.saved
  /\ resp.alert_calls = 1
  /\ resp.save_calls = 1
  /\ active_incidents >= 1

\* The last call of the locator met a missing model or a failing inference.
LocatorFailed == yolo_ret.op # "none" /\ yolo_ret.failed

\* C21: the object locator never raises: YOLODetector.detect_objects and
\* app.py detect_objects return the empty list whenever the model is not
\* loaded or inference raises, and detect_traffic_incidents then reports
\* has_incident false, incident_type 'none' and all counts 0.
C21_LocatorNeverRaises ==
  /\ ~yolo_ret.raised
  /\ LocatorFailed =>
       /\ yolo_ret.detections = <<>>
       /\ ~yolo_ret.report.has_incident
       /\ yolo_ret.report.incident_type = "none"
       /\ yolo_ret.report.vehicle_count = 0
       /\ yolo_ret.report.person_count = 0
       /\ yolo_ret.report.incident_count = 0

\* detect_traffic_incidents ran on a loaded model whose inference raised.
C21_Witness ==
  /\ yolo_model
  /\ yolo_ret.op = "detect_traffic_incidents"
  /\ yolo_ret.failed
  /\ yolo_ret.detections = <<>>

\* The patterns of a list of detections.
PersonNearVehicle(d) ==
  \E i, j \in DOMAIN d :
     /\ d[i].type = "person"
     /\ d[j].type = "vehicle"
     /\ Abs(d[i].cx - d[j].cx) < PedestrianDistance

VehiclesClose(d) ==
  \E i, j \in DOMAIN d :
     /\ i # j
     /\ d[i].type = "vehicle"
     /\ d[j].type = "vehicle"
     /\ Abs(d[i].cx - d[j].cx) < CollisionDistance

FireSeen(d) == \E i \in DOMAIN d : d[i].type = "incident"

\* C30: in every result of detect_traffic_incidents has_incident is true iff
\* incident_type is not 'none' iff severity is 'high'; when several patterns
\* match, pedestrian_danger (a person within 100 px of a vehicle) wins over
\* collision (two vehicles within 50 px), which wins over fire (any
\* incident-class detection).
C30_IncidentTypePrecedence ==
  yolo_ret.op = "detect_traffic_incidents" =>
    LET r == yolo_ret.report
        d == yolo_ret.detections
    IN /\ r.has_incident <=> r.incident_type # "none"
       /\ r.has_incident <=> r.severity = "high"
       /\ r.incident_type =
            IF PersonNearVehicle(d) THEN "pedestrian_danger"
            ELSE IF VehiclesClose(d) THEN "collision"
            ELSE IF FireSeen(d) THEN "fire"
            ELSE "none"

\* All three patterns matched and the result says pedestrian_danger.
C30_Witness ==
  /\ yolo_ret.op = "detect_traffic_incidents"
  /\ PersonNearVehicle(yolo_ret.detections)
  /\ VehiclesClose(yolo_ret.detections)
  /\ FireSeen(yolo_ret.detections)
  /\ yolo_ret.report.incident_type = "pedestrian_danger"
  /\ yolo_ret.report.severity = "high"

\* A direct call without a model gave a no-incident judgment of confidence 0.
AbsentJudgment ==
  /\ judgment.analyzer = "detector" =>
       /\ judgment.dict.kind = "object"
       /\ judgment.dict.obj.has_crash = JBool(FALSE)
       /\ judgment.dict.obj.confidence = JNum(0)
  /\ judgment.analyzer = "scene" =>
       /\ judgment.scene.has_incident = JBool(FALSE)
       /\ judgment.scene.confidence = 0

\* Nothing was emitted and no emission timestamp recorded.
NothingEmitted ==
  /\ ~ret.has_crash
  /\ \A v \in VideoIds : events[v] = <<>>
  /\ last_detection_time = <<>>

\* C22: when no semantic analyzer is configured (the model is None), every
\* analyze call returns a no-incident judgment with confidence 0.0, and
\* analyze_video_frame never emits an incident and never records an emission
\* timestamp, whatever the heuristic score.
C22_NoAnalyzerNoIncident ==
  ~gemini_model => AbsentJudgment /\ NothingEmitted

\* Without a model, an eligible frame scored above the first-stage threshold
\* and an analyzer was asked directly.
C22_Witness ==
  /\ ~gemini_model
  /\ judgment.analyzer = "scene"
  /\ ret.outcome = "returned"
  /\ StrideEligible(ret.frame_number)
  /\ ret.video \in DOMAIN frame_buffers
  /\ HeuristicOfLast > CvThreshold
  /\ calls = 0

\* The buffer of source v, empty while v has no entry.
BufferOf(buffers, v) == IF v \in DOMAIN buffers THEN buffers[v] ELSE <<>>

\* The last n elements of a sequence.
LastN(seq, n) ==
  IF Len(seq) <= n THEN seq ELSE SubSeq(seq, Len(seq) - n + 1, Len(seq))

\* A delivered frame goes to the end of its source's buffer, the most recent
\* five stay in arrival order, and the other buffers are left alone; a null
\* frame changes no buffer.
BufferFollowsArrivals ==
  IF FrameDelivered
  THEN /\ \E frame \in Frames :
            BufferOf(frame_buffers', ret'.video) =
              LastN(Append(BufferOf(frame_buffers, ret'.video), frame),
                    BufferSize)
       /\ \A v \in VideoIds \ {ret'.video} :
            BufferOf(frame_buffers', v) = BufferOf(frame_buffers, v)
  ELSE frame_buffers' = frame_buffers

\* C23: after any sequence of analyze_video_frame calls each source's frame
\* buffer holds at most 5 frames, and they are the most recent non-null
\* frames delivered for that source in arrival order, frames skipped by the
\* stride or suppressed by the cooldown included.
C23_BufferHoldsLastFive ==
  /\ [](\A v \in DOMAIN frame_buffers : Len(frame_buffers[v]) <= BufferSize)
  /\ [][BufferFollowsArrivals]_vars

\* Seven frames were delivered, the last one off the stride and inside the
\* cooldown window, and the buffer holds five frames that are not all equal.
C23_Witness ==
  /\ calls = 0
  /\ Len(BufferOf(frame_buffers, "camA")) = BufferSize
  /\ frame_buffers["camA"][1] # frame_buffers["camA"][BufferSize]
  /\ ~StrideEligible(ret.frame_number)
  /\ InCooldown(last_detection_time, "camA", now)

\* Two requests in a row, both with a decoded frame, both asked the analyzer.
AnalyzedTwiceInARow ==
  /\ calls' = calls - 1
  /\ resp.analyzed
  /\ resp'.analyzed

\* C24: in app.py process_frame the analyzer is invoked only on every 5th
\* processed frame: among any 5 consecutive decoded frames at most one
\* triggers an analyzer call, whatever the analyzer returns.  Stated for two
\* frames in a row, which any 5 consecutive frames contain.
C24_AnalyzerEveryFifthFrame == [][~AnalyzedTwiceInARow]_vars

\* Two requests in a row were both answered with the simulated incident.
IncidentTwiceInARow ==
  /\ calls' = calls - 1
  /\ resp.kind = "incident"
  /\ resp'.kind = "incident"

\* C25: in simple_app.py process_frame a simulated incident is returned for
\* one in every ten processed frames; the other nine calls return no incident
\* and increment total_detections.  Stated as: an incident is never followed
\* at once by another, and after the first call total_detections has grown.
C25_OneIncidentInTen ==
  /\ [][~IncidentTwiceInARow]_vars
  /\ [](calls + 1 < SimplePosts => total_detections > 0)

\* The source of the frame being delivered is inside its cooldown window
\* when the call is made.
InWindowAtCall ==
  /\ ret'.video \in DOMAIN last_detection_time
  /\ now - last_detection_time[ret'.video] < Cooldown

\* A frame delivered inside the window reaches neither stage.
SuppressedCostsNothing ==
  (FrameDelivered /\ InWindowAtCall) => ~ret'.analyzed /\ ~ret'.screened

\* C26: while a source is inside its cooldown window analyze_video_frame
\* invokes neither the semantic analyzer nor the heuristic analysis for that
\* source: the cooldown check precedes both stages.
C26_CooldownPrecedesBothStages == [][SuppressedCostsNothing]_vars

\* A frame the analyzer would confirm, on the stride, arrived inside the
\* window and reached neither stage.
C26_Witness ==
  /\ ret.confirmed
  /\ StrideEligible(ret.frame_number)
  /\ ~ret.analyzed
  /\ ~ret.screened
  /\ events[ret.video] # <<>>
  /\ now - Last(events[ret.video]) < Cooldown

\* The verdict for the examined frame with previous frame p.
VerdictWith(p) == DetectCrashInFrame(cd_frame, p).has_crash

FirstFrameOfSource == FrameDelivered /\ ret'.video \notin DOMAIN frame_buffers

\* The first frame of a source reaches no analyzer and emits nothing.
FirstFrameStaysBelow ==
  FirstFrameOfSource =>
     /\ ~ret'.analyzed
     /\ ~ret'.has_crash
     /\ events' = events
     /\ last_detection_time' = last_detection_time

\* C28: the first non-null frame ever delivered for a source never escalates
\* and never emits, whatever its index and content: with a single buffered
\* frame no motion is detected, so the heuristic confidence is at most 0.5.
C28_FirstFrameNeverEscalates ==
  /\ [][FirstFrameStaysBelow]_vars
  /\ [](\A v \in DOMAIN frame_buffers :
          Len(frame_buffers[v]) = 1 =>
            AnalyzeWithComputerVision(frame_buffers[v][1], v,
                                      frame_buffers).confidence
              <= CvCrowdConfidence)

\* The first frame of a source came on the stride with five contours and an
\* analyzer at hand: the heuristic ran, gave 0.5, and the analyzer was not
\* asked.
C28_Witness ==
  /\ gemini_model
  /\ calls = MaxCalls - 1
  /\ StrideEligible(ret.frame_number)
  /\ Len(BufferOf(frame_buffers, ret.video)) = 1
  /\ ret.screened
  /\ HeuristicOfLast = CvCrowdConfidence
  /\ ~ret.analyzed

\* The result of the step is the no-detection result.
ReturnsNoDetection ==
  /\ ~ret'.has_crash
  /\ ret'.confidence = JNum(0)
  /\ ret'.crash_type = JStr("none")
  /\ ret'.severity = JStr("none")
  /\ ~ret'.analyzed

\* A step that is a call with a null frame: the call count and the clock
\* stay as they are.
NullFrameCall == calls' = calls /\ now' = now

\* A call with a null frame changes nothing.
NullFrameChangesNothing ==
  NullFrameCall =>
     /\ frame_buffers' = frame_buffers
     /\ last_detection_time' = last_detection_time
     /\ events' = events
     /\ gemini_model' = gemini_model
     /\ ReturnsNoDetection

\* A frame off the stride changes the buffer of its source and nothing else.
OffStrideChangesBufferOnly ==
  (FrameDelivered /\ ret'.frame_number % Stride # 0) =>
     /\ \A v \in VideoIds \ {ret'.video} :
          BufferOf(frame_buffers', v) = BufferOf(frame_buffers, v)
     /\ Len(BufferOf(frame_buffers', ret'.video)) >= 1
     /\ last_detection_time' = last_detection_time
     /\ events' = events
     /\ now' = now
     /\ gemini_model' = gemini_model
     /\ ~ret'.screened
     /\ ReturnsNoDetection

\* C29: analyze_video_frame called with a null frame changes no state at all
\* (no buffer entry is created, no timestamp is written); called with a
\* non-null frame whose index is not a multiple of 30 it changes only the
\* frame buffer of that source; in both cases it returns the no-detection
\* result.
C29_SkippedFramesEffect ==
  [][NullFrameChangesNothing /\ OffStrideChangesBufferOnly]_vars

\* A frame off the stride was delivered for camB while camA holds frames,
\* with a heuristic confidence above the first-stage threshold.
C29_Witness ==
  /\ ret.video = "camB"
  /\ ret.outcome = "returned"
  /\ ret.frame_number % Stride # 0
  /\ BufferOf(frame_buffers, "camA") # <<>>
  /\ Len(BufferOf(frame_buffers, "camB")) >= 2
  /\ HeuristicOfLast > CvThreshold
  /\ ~ret.screened
  /\ ~ret.analyzed

====
